---- MODULE Spec2Model ----
(***************************************************************************)
(* State-machine model of the TP-Link Easy Smart integration:              *)
(*   client/tplink_api.py      TpLinkApi VLAN builders and device calls     *)
(*   update_coordinator.py     TpLinkDataUpdateCoordinator cache, refresh   *)
(*                             and the port-to-VLAN move handlers           *)
(* Python lists are sequences, dicts are functions, None ids are 0 and a   *)
(* None dict is the empty function (line 203/227 of the coordinator never   *)
(* stores an empty dict, so the two cannot be confused).  An exception is   *)
(* recorded in task.exc; the handler stops where Python would unwind.       *)
(***************************************************************************)
EXTENDS Integers, Sequences, FiniteSets, TLC

\* ---------------------------------------------------------------- bounds
PBPorts == 3           \* ports of the switch running port-based VLAN
QPorts == 2            \* ports of the switch running 802.1Q VLAN
MaxMoves == 2          \* port-based moves explored after each refresh
BuilderMaxPorts == 8   \* largest portNum fed to the builders alone
MaskBits == 2          \* builder masks range over 0 .. 2^MaskBits - 1
PoePorts == 2          \* PoE ports of the device in the PoE client runs

\* ------------------------------------------------------ program constants
MinBits == 8           \* max(8, ...) in the mask decoders
FullListStop == 8      \* range(1, 8, 1) in get_1q_vlan_info
DefaultVlan == 1       \* VLAN-1, the default VLAN

None == 0
NoneDict == << >>

VARIABLES
    port_states,              \* self._port_states
    port_based_vlan_enabled,  \* self._port_based_vlan_enabled
    port_based_vlans,         \* self._port_based_vlans : vid -> ports
    vlan_1q_enabled,          \* self._1q_vlan_enabled
    vlans_1q,                 \* self._1q_vlans : vid -> IEEE1QVLAN
    calls,                    \* device calls issued by the running handler
    task,                     \* the running (or just finished) handler
    moves,                    \* moves entered since the last refresh (counted to MaxMoves)
    clean,                    \* no handler has raised since the last refresh
    builder_in,               \* page handed to a builder run on its own
    builder_out,              \* what that builder returned
    switch_info,              \* self._switch_info
    poe_state,                \* self._poe_state
    port_poe_states,          \* self._port_poe_states
    is_features_updated,      \* TpLinkApi._is_features_updated
    feature_poe,              \* what the feature detector resolved for feature_poe
    last_update,              \* what the switch answered in the last refresh cycle
    requests,                 \* device requests issued by the running client call
    api_task,                 \* the client call made on its own
    update_task,              \* how far the last refresh cycle got
    feature_calls,            \* position of each is_feature_available call in flight
    feature_updates           \* runs of the feature detector's update() so far

vars == << port_states, port_based_vlan_enabled, port_based_vlans,
           vlan_1q_enabled, vlans_1q, calls, task, moves, clean, builder_in, builder_out,
           switch_info, poe_state, port_poe_states, is_features_updated, feature_poe,
           last_update, requests, api_task, update_task, feature_calls, feature_updates >>

\* what a refresh cycle writes besides the port and VLAN caches
refresh_vars == << switch_info, poe_state, port_poe_states, is_features_updated,
                  feature_poe, last_update, update_task >>

client_vars == << requests, api_task, feature_calls, feature_updates >>

coordinator_vars == << port_states, port_based_vlan_enabled, port_based_vlans,
                       vlan_1q_enabled, vlans_1q, calls, task, moves, clean,
                       switch_info, poe_state, port_poe_states, last_update, update_task >>

\* ------------------------------------------------------------ list helpers
Range(s) == { s[i] : i \in 1..Len(s) }

Contains(s, x) == \E i \in 1..Len(s) : s[i] = x

Count(s, x) == Cardinality({ i \in 1..Len(s) : s[i] = x })

FirstIndex(s, x) == CHOOSE i \in 1..Len(s) : s[i] = x /\ \A j \in 1..(i-1) : s[j] # x

\* list.remove(x): drops the first occurrence (the caller checks Contains)
ListRemove(s, x) ==
    LET i == FirstIndex(s, x) IN SubSeq(s, 1, i-1) \o SubSeq(s, i+1, Len(s))

\* dict.get(k): the value, or None
DictHas(d, k) == k \in DOMAIN d

\* d[k] = v on a dict
DictSet(d, k, v) == [ x \in (DOMAIN d) \cup {k} |-> IF x = k THEN v ELSE d[x] ]

\* ------------------------------------------------------------- bit helpers
Pow2(n) == 2^n

\* mask & (1 << i) != 0
BitSet(mask, i) == (mask \div Pow2(i)) % 2 = 1

\* floor(log2(mask)) + 1 for mask >= 1
RECURSIVE BitLength(_)
BitLength(mask) == IF mask = 0 THEN 0 ELSE 1 + BitLength(mask \div 2)

Max(a, b) == IF a >= b THEN a ELSE b

\* ascending list of the elements of a finite set of integers
RECURSIVE SortedSeq(_)
SortedSeq(S) ==
    IF S = {} THEN << >>
    ELSE LET m == CHOOSE x \in S : \A y \in S : x <= y
         IN << m >> \o SortedSeq(S \ {m})

\* bits = int(max(8, math.log(mbr, 2)+1)); out = [...]; the i+1 of reversed(out)
\* that are set: every set bit below `bits`, in ascending port order
DecodeBits(mask) == Max(MinBits, BitLength(mask))

DecodeMask(mask) == SortedSeq({ i + 1 : i \in { j \in 0..(DecodeBits(mask)-1) : BitSet(mask, j) } })

\* ----------------------------------------------- get_port_based_vlan_info
\* slip: the scan does not stop at the first hit, the last VLAN wins
FirstMatch_last_wins(vids, mbrs, port_idx) ==
    LET hits == { i \in 1..Len(vids) : BitSet(mbrs[i], port_idx - 1) }
    IN IF hits = {} THEN DefaultVlan
       ELSE vids[CHOOSE i \in hits : \A j \in hits : i >= j]

\* for (idx, vid) in enumerate(vids): first vid whose mask has the port's bit
FirstMatch(vids, mbrs, port_idx) ==
    LET hits == { i \in 1..Len(vids) : BitSet(mbrs[i], port_idx - 1) }
    IN IF hits = {} THEN DefaultVlan
       ELSE vids[CHOOSE i \in hits : \A j \in hits : i <= j]

\* vlans[vid] = ... in a loop: a later entry of the same vid overwrites
LastIndexOf(vids, vid) ==
    CHOOSE i \in 1..Len(vids) : vids[i] = vid /\ \A j \in (i+1)..Len(vids) : vids[j] # vid

BuilderPending == [ kind |-> "pending", ports |-> << >>, vlans |-> << >>, exc |-> "" ]

BuilderNone == [ kind |-> "none", ports |-> << >>, vlans |-> NoneDict, exc |-> "" ]

BuilderRaise(e) == [ kind |-> "raise", ports |-> << >>, vlans |-> NoneDict, exc |-> e ]

get_port_based_vlan_info(data) ==
    IF data.state = 0 \/ data.portNum = 0 \/ data.vids = << >> \/ data.mbrs = << >>
    THEN BuilderNone
    ELSE IF \E i \in 1..Len(data.vids) : data.mbrs[i] = 0
    THEN BuilderRaise("ValueError")
    ELSE [ kind  |-> "ok",
           ports |-> [ p \in 1..data.portNum |-> FirstMatch(data.vids, data.mbrs, p) ],
           vlans |-> [ v \in Range(data.vids) |->
                         DecodeMask(data.mbrs[LastIndexOf(data.vids, v)]) ],
           exc   |-> "" ]

\* ------------------------------------------------------- get_1q_vlan_info
\* if mask != 0: decode as above, else the empty list
DecodeMask1Q(mask) == IF mask # 0 THEN DecodeMask(mask) ELSE << >>

\* full_list = [*range(1, 8, 1)]
FullList == SortedSeq(1..(FullListStop - 1))

\* [x for x in full_list if (x not in untag and x not in tag)]
NotMembers(untag, tag) == SelectSeq(FullList, LAMBDA x : ~Contains(untag, x) /\ ~Contains(tag, x))

IEEE1QVLAN(untag, tag, notmem) ==
    [ ungtag_ports |-> untag, tag_ports |-> tag, notmem_ports |-> notmem ]

Build1QVlan(untagMbr, tagMbr) ==
    LET u == DecodeMask1Q(untagMbr)
        t == DecodeMask1Q(tagMbr)
    IN IEEE1QVLAN(u, t, NotMembers(u, t))

get_1q_vlan_info(data) ==
    IF data.state = 0 \/ data.portNum = 0 \/ data.vids = << >>
       \/ data.untagMbrs = << >> \/ data.tagMbrs = << >>
    THEN BuilderNone
    ELSE [ kind  |-> "ok",
           ports |-> [ p \in 1..data.portNum |-> FirstMatch(data.vids, data.untagMbrs, p) ],
           vlans |-> [ v \in Range(data.vids) |->
                         LET i == LastIndexOf(data.vids, v)
                         IN Build1QVlan(data.untagMbrs[i], data.tagMbrs[i]) ],
           exc   |-> "" ]

\* ----------------------------------------------------------- device pages
\* encode: OR of 1 << (port-1) over a set of ports
RECURSIVE MaskOf(_)
MaskOf(S) == IF S = {} THEN 0
             ELSE LET p == CHOOSE x \in S : TRUE IN Pow2(p - 1) + MaskOf(S \ {p})

PBPage(state, portNum, vids, mbrs) ==
    [ state |-> state, portNum |-> portNum, vids |-> vids, mbrs |-> mbrs ]

QPage(state, portNum, vids, untagMbrs, tagMbrs) ==
    [ state |-> state, portNum |-> portNum, vids |-> vids,
      untagMbrs |-> untagMbrs, tagMbrs |-> tagMbrs ]

PBOff == PBPage(0, 0, << >>, << >>)
QOff == QPage(0, 0, << >>, << >>, << >>)

\* Port-based VLAN ids offered by the select entity: VLAN-1 .. VLAN-<ports_count>
PBVids == 1..PBPorts

\* What the switch shows on VlanPortBasicRpm.htm when port-based VLAN is on:
\* every port in exactly one VLAN, VLAN 1 always listed, the other VLANs
\* listed while they have members, ids ascending.
PBDevicePage(assign) ==
    LET used == SortedSeq({DefaultVlan} \cup { assign[p] : p \in 1..PBPorts })
    IN PBPage(1, PBPorts, used,
              [ i \in 1..Len(used) |-> MaskOf({ p \in 1..PBPorts : assign[p] = used[i] }) ])

PBDevicePages == { PBDevicePage(a) : a \in [ 1..PBPorts -> PBVids ] }

\* 802.1Q VLAN ids configured on the switch
QVids == << 1, 2 >>

\* What the switch shows on Vlan8021QRpm.htm when 802.1Q is on: each port is
\* untagged (0), tagged (1) or not a member (2) of each VLAN.
QDevicePage(typ) ==
    QPage(1, QPorts, QVids,
          [ i \in 1..Len(QVids) |-> MaskOf({ p \in 1..QPorts : typ[i][p] = 0 }) ],
          [ i \in 1..Len(QVids) |-> MaskOf({ p \in 1..QPorts : typ[i][p] = 1 }) ])

QDevicePages == { QDevicePage(t) : t \in [ 1..Len(QVids) -> [ 1..QPorts -> 0..2 ] ] }

\* ------------------------------------------------------------ coordinator
PortState(number) ==
    [ number |-> number, enabled |-> TRUE,
      port_based_vlanid |-> None, pvid_1q_vlanid |-> None ]

\* get_port_states(): one fresh PortState per port, both VLAN ids None
get_port_states(max_port_num) == [ n \in 1..max_port_num |-> PortState(n) ]

\* _update_port_states: the fetched list, or [] when the fetch raised
update_port_states(ok, max_port_num) == IF ok THEN get_port_states(max_port_num) ELSE << >>

Fetched(data) == [ raise |-> FALSE, data |-> data ]

\* VLAN pages lacking the state flag, the port count, the VLAN ids or the masks
PBLackingPages ==
    { PBPage(0, 1, << 1 >>, << 1 >>), PBPage(1, 0, << 1 >>, << 1 >>),
      PBPage(1, 1, << >>, << 1 >>), PBPage(1, 1, << 1 >>, << >>) }

QLackingPages ==
    { QPage(0, 1, << 1 >>, << 1 >>, << 0 >>), QPage(1, 0, << 1 >>, << 1 >>, << 0 >>),
      QPage(1, 1, << >>, << 1 >>, << 0 >>), QPage(1, 1, << 1 >>, << >>, << 0 >>),
      QPage(1, 1, << 1 >>, << 1 >>, << >>) }

\* one page of each VLAN variant for a switch of QPorts ports: port 1 in
\* VLAN 1 and port 2 in VLAN 2; every port untagged in VLAN 1
RefreshPBPage == PBPage(1, QPorts, << 1, 2 >>, << MaskOf({1}), MaskOf({2}) >>)

RefreshQPage == QDevicePage([ i \in 1..Len(QVids) |-> [ p \in 1..QPorts |-> IF i = 1 THEN 0 ELSE 2 ] ])

\* await self._api.get_port_based_vlan_info(): the builder's answer per page
ApiPortBasedInfo ==
    [ d \in PBDevicePages \cup {PBOff, RefreshPBPage} \cup PBLackingPages |->
        get_port_based_vlan_info(d) ]

\* await self._api.get_1q_vlan_info(): the builder's answer per page
Api1QInfo == [ d \in QDevicePages \cup {QOff} \cup QLackingPages |-> get_1q_vlan_info(d) ]

\* slip: the fetched table is merged into the cached one
update_port_based_vlan_info_merges(ps, enabled, fetch) ==
    LET result == IF fetch.raise THEN BuilderRaise("DeviceError")
                  ELSE ApiPortBasedInfo[fetch.data]
        cleared == [ i \in 1..Len(ps) |-> [ ps[i] EXCEPT !.port_based_vlanid = None ] ]
    IN IF result.kind = "raise"
       THEN [ ps |-> cleared, enabled |-> enabled, vlans |-> NoneDict ]
       ELSE IF result.kind = "none"
       THEN [ ps |-> cleared, enabled |-> FALSE, vlans |-> NoneDict ]
       ELSE IF \E i \in 1..Len(ps) : ps[i].number > Len(result.ports)
       THEN [ ps |-> cleared, enabled |-> TRUE, vlans |-> NoneDict ]
       ELSE [ ps |-> [ i \in 1..Len(ps) |->
                        [ ps[i] EXCEPT !.port_based_vlanid = result.ports[ps[i].number] ] ],
              enabled |-> TRUE,
              vlans |-> [ v \in (DOMAIN result.vlans) \cup (DOMAIN port_based_vlans) |->
                            IF v \in DOMAIN result.vlans THEN result.vlans[v]
                            ELSE port_based_vlans[v] ] ]

\* slip: a feature-unavailable answer leaves the enabled flag as it was
update_port_based_vlan_info_keeps_flag(ps, enabled, fetch) ==
    LET result == IF fetch.raise THEN BuilderRaise("DeviceError")
                  ELSE ApiPortBasedInfo[fetch.data]
        cleared == [ i \in 1..Len(ps) |-> [ ps[i] EXCEPT !.port_based_vlanid = None ] ]
    IN IF result.kind = "raise" \/ result.kind = "none"
       THEN [ ps |-> cleared, enabled |-> enabled, vlans |-> NoneDict ]
       ELSE IF \E i \in 1..Len(ps) : ps[i].number > Len(result.ports)
       THEN [ ps |-> cleared, enabled |-> TRUE, vlans |-> NoneDict ]
       ELSE [ ps |-> [ i \in 1..Len(ps) |->
                        [ ps[i] EXCEPT !.port_based_vlanid = result.ports[ps[i].number] ] ],
              enabled |-> TRUE, vlans |-> result.vlans ]

\* _update_port_based_vlan_info, given what the page fetch did
update_port_based_vlan_info(ps, enabled, fetch) ==
    LET result == IF fetch.raise THEN BuilderRaise("DeviceError")
                  ELSE ApiPortBasedInfo[fetch.data]
        cleared == [ i \in 1..Len(ps) |-> [ ps[i] EXCEPT !.port_based_vlanid = None ] ]
    IN IF result.kind = "raise"
       THEN [ ps |-> cleared, enabled |-> enabled, vlans |-> NoneDict ]
       ELSE IF result.kind = "none"
       THEN [ ps |-> cleared, enabled |-> FALSE, vlans |-> NoneDict ]
       ELSE IF \E i \in 1..Len(ps) : ps[i].number > Len(result.ports)
       THEN [ ps |-> cleared, enabled |-> TRUE, vlans |-> NoneDict ]
       ELSE [ ps |-> [ i \in 1..Len(ps) |->
                        [ ps[i] EXCEPT !.port_based_vlanid = result.ports[ps[i].number] ] ],
              enabled |-> TRUE, vlans |-> result.vlans ]

\* _update_1q_vlan_info, given what the page fetch did
update_1q_vlan_info(ps, enabled, fetch) ==
    LET result == IF fetch.raise THEN BuilderRaise("DeviceError")
                  ELSE Api1QInfo[fetch.data]
        cleared == [ i \in 1..Len(ps) |-> [ ps[i] EXCEPT !.pvid_1q_vlanid = None ] ]
    IN IF result.kind = "raise"
       THEN [ ps |-> cleared, enabled |-> enabled, vlans |-> NoneDict ]
       ELSE IF result.kind = "none"
       THEN [ ps |-> cleared, enabled |-> FALSE, vlans |-> NoneDict ]
       ELSE IF \E i \in 1..Len(ps) : ps[i].number > Len(result.ports)
       THEN [ ps |-> cleared, enabled |-> TRUE, vlans |-> NoneDict ]
       ELSE [ ps |-> [ i \in 1..Len(ps) |->
                        [ ps[i] EXCEPT !.pvid_1q_vlanid = result.ports[ps[i].number] ] ],
              enabled |-> TRUE, vlans |-> result.vlans ]

\* ------------------------------------------------------------- PoE client
URL_POE_SETTINGS_GET == "PoeConfigRpm.htm"
URL_POE_SETTINGS_SET == "poe_global_config.cgi"
URL_POE_PORT_SETTINGS_SET == "poe_port_config.cgi"

\* a request handed to the transport (self._core_api)
Get(url) == [ method |-> "GET", url |-> url, data |-> << >> ]

Post(url, data) == [ method |-> "POST", url |-> url, data |-> data ]

\* how a client call ends: its return value or the exception it raises, and
\* the requests it issued on the way
Ret(value, reqs) == [ kind |-> "ok", value |-> value, exc |-> "", msg |-> "", requests |-> reqs ]

Raised(exc, msg, reqs) ==
    [ kind |-> "raise", value |-> None, exc |-> exc, msg |-> msg, requests |-> reqs ]

\* The feature detector (client/utils.py) resolves feature_poe to a boolean;
\* it is run by the first is_feature_available call and its answer is kept.
FeaturesDetected == BOOLEAN

\* is_feature_available: _ensure_features_updated, then the detector's answer
is_feature_available(updated, cached, detected) == IF updated THEN cached ELSE detected

\* PoeConfigRpm.htm: globalConfig (watts in tenths), portConfig (one entry
\* per PoE port) and poe_port_num; an absent variable is None / empty
NoConfig == [ kind |-> "None" ]

GlobalConfig(limit, min, max) ==
    [ kind |-> "dict", system_power_limit |-> limit, system_power_remain |-> max - limit,
      system_power_limit_min |-> min, system_power_limit_max |-> max,
      system_power_consumption |-> 0 ]

PortConfig(state, priority, powerlimit) ==
    [ state |-> state, priority |-> priority, powerlimit |-> powerlimit ]

PoePage(globalConfig, portConfig, poe_port_num) ==
    [ globalConfig |-> globalConfig, portConfig |-> portConfig, poe_port_num |-> poe_port_num ]

NoPoePage == PoePage(NoConfig, << >>, 0)

PoeFetched(page) == [ raise |-> FALSE, page |-> page ]

PoeFetchRaises == [ raise |-> TRUE, page |-> NoPoePage ]

\* PoeState(...): the wire's tenths of a watt divided by 10; kept in tenths
NonePoeState == [ kind |-> "None" ]

PoeState(cfg) ==
    [ kind |-> "PoeState",
      power_limit |-> cfg.system_power_limit,
      power_remain |-> cfg.system_power_remain,
      power_limit_min |-> cfg.system_power_limit_min,
      power_limit_max |-> cfg.system_power_limit_max,
      power_consumption |-> cfg.system_power_consumption ]

\* TpLinkApi.get_poe_state
get_poe_state(available, fetch) ==
    IF ~available THEN Ret(NonePoeState, << >>)
    ELSE IF fetch.raise THEN Raised("DeviceError", "", << Get(URL_POE_SETTINGS_GET) >>)
    ELSE IF fetch.page.globalConfig = NoConfig
    THEN Ret(NonePoeState, << Get(URL_POE_SETTINGS_GET) >>)
    ELSE Ret(PoeState(fetch.page.globalConfig), << Get(URL_POE_SETTINGS_GET) >>)

PortPoeState(number, cfg) ==
    [ number |-> number, enabled |-> cfg.state = 1, priority |-> cfg.priority,
      power_limit |-> cfg.powerlimit ]

\* TpLinkApi.get_port_poe_states
get_port_poe_states(available, fetch) ==
    IF ~available THEN Ret(<< >>, << >>)
    ELSE IF fetch.raise THEN Raised("DeviceError", "", << Get(URL_POE_SETTINGS_GET) >>)
    ELSE IF fetch.page.portConfig = << >> \/ fetch.page.poe_port_num = 0
    THEN Ret(<< >>, << Get(URL_POE_SETTINGS_GET) >>)
    ELSE IF fetch.page.poe_port_num > Len(fetch.page.portConfig)
    THEN Raised("IndexError", "", << Get(URL_POE_SETTINGS_GET) >>)
    ELSE Ret([ n \in 1..fetch.page.poe_port_num |-> PortPoeState(n, fetch.page.portConfig[n]) ],
             << Get(URL_POE_SETTINGS_GET) >>)

\* _update_poe_state: a failed fetch is logged and the cached state kept
update_poe_state(available, cached, fetch) ==
    IF ~available THEN cached
    ELSE LET r == get_poe_state(available, fetch)
         IN IF r.kind = "raise" THEN cached ELSE r.value

\* _update_port_poe_states: a failed fetch empties the list
update_port_poe_states(available, cached, fetch) ==
    IF ~available THEN cached
    ELSE LET r == get_port_poe_states(available, fetch)
         IN IF r.kind = "raise" THEN << >> ELSE r.value

\* self._switch_info
NoneSwitchInfo == [ kind |-> "None" ]

TpLinkSystemInfo == [ kind |-> "TpLinkSystemInfo" ]

\* The running handler.  pre_vlans / pre_states keep the cache as it was when
\* the handler was entered, for the properties that compare before and after;
\* refreshed tells that a refresh cycle ran while the handler was suspended.
Idle ==
    [ op |-> "idle", pc |-> "idle", port_id |-> 0, new_vlanid |-> 0,
      old_vlanid |-> 0, branch |-> "", new_vlan_ports |-> << >>, exc |-> "",
      notified |-> FALSE, pre_vlans |-> NoneDict, pre_states |-> << >>,
      refreshed |-> FALSE, enabled |-> FALSE ]

\* What the switch answers during one refresh cycle: whether the system-info
\* page and the port page could be fetched, max_port_num, what the feature
\* detector finds, the two fetches of the PoE page and the two VLAN pages.
RefreshAnswer(info_ok, ok, max_port_num, feature, poe, port_poe, pb, q) ==
    [ info_ok |-> info_ok, ok |-> ok, max_port_num |-> max_port_num, feature |-> feature,
      poe |-> poe, port_poe |-> port_poe, pb |-> pb, q |-> q ]

\* A switch without PoE whose system-info page answers.  The firmware runs
\* one VLAN mode at a time, so one of the two VLAN pages is off.
Answer(ok, max_port_num, pb, q) ==
    RefreshAnswer(TRUE, ok, max_port_num, FALSE, PoeFetched(NoPoePage), PoeFetched(NoPoePage),
                  pb, q)

\* no refresh cycle has run yet
NoAnswer == Answer(FALSE, 0, [ raise |-> TRUE, data |-> PBOff ], [ raise |-> TRUE, data |-> QOff ])

PBFetches == { Fetched(d) : d \in PBDevicePages \cup {PBOff} }
                 \cup { [ raise |-> TRUE, data |-> PBOff ] }

QFetches == { Fetched(d) : d \in QDevicePages \cup {QOff} }
                \cup { [ raise |-> TRUE, data |-> QOff ] }

PortBasedAnswers == { Answer(ok, PBPorts, pb, Fetched(QOff)) : ok \in BOOLEAN, pb \in PBFetches }

Answers1Q == { Answer(ok, QPorts, Fetched(PBOff), q) : ok \in BOOLEAN, q \in QFetches }

\* the sub-fetches of async_update, in the order they are awaited
SubFetches == << "switch_info", "port_states", "poe_state", "port_poe_states",
                 "port_based_vlan_info", "1q_vlan_info" >>

\* The refresh cycle: which sub-fetches ran and how the cycle ended.
\* after_failure: a move handler had raised since the cycle before.
UpdateTask(pc, exc, ran, after_failure) ==
    [ pc |-> pc, exc |-> exc, ran |-> ran, after_failure |-> after_failure ]

NoUpdateTask == UpdateTask("none", "", << >>, FALSE)

\* One refresh cycle: switch info, port states, PoE state, port PoE states,
\* the port-based page, then the 802.1Q page.  _update_switch_info has no
\* try: when it raises, the cycle ends there.
RefreshCycle(a) ==
    /\ last_update' = a
    /\ update_task' = IF ~a.info_ok
                      THEN UpdateTask("raised", "DeviceError", SubSeq(SubFetches, 1, 1),
                                      ~clean)
                      ELSE UpdateTask("done", "", SubFetches, ~clean)
    /\ IF ~a.info_ok
       THEN UNCHANGED << port_states, port_based_vlan_enabled, port_based_vlans,
                         vlan_1q_enabled, vlans_1q, switch_info, poe_state, port_poe_states,
                         is_features_updated, feature_poe >>
       ELSE LET available == is_feature_available(is_features_updated, feature_poe, a.feature)
                ps0 == update_port_states(a.ok, a.max_port_num)
                r1  == update_port_based_vlan_info(ps0, port_based_vlan_enabled, a.pb)
                r2  == update_1q_vlan_info(r1.ps, vlan_1q_enabled, a.q)
            IN /\ switch_info' = TpLinkSystemInfo
               /\ is_features_updated' = TRUE
               /\ feature_poe' = available
               /\ poe_state' = update_poe_state(available, poe_state, a.poe)
               /\ port_poe_states' = update_port_poe_states(available, port_poe_states,
                                                            a.port_poe)
               /\ port_states' = r2.ps
               /\ port_based_vlan_enabled' = r1.enabled
               /\ port_based_vlans' = r1.vlans
               /\ vlan_1q_enabled' = r2.enabled
               /\ vlans_1q' = r2.vlans
    /\ UNCHANGED << calls, builder_in, builder_out, client_vars >>

\* async_update called while no move handler is running; a cycle that got
\* past the switch info starts a new round of moves
async_update(a) ==
    /\ task.pc = "idle"
    /\ RefreshCycle(a)
    /\ moves' = IF a.info_ok THEN 0 ELSE moves
    /\ clean' = IF a.info_ok THEN TRUE ELSE clean
    /\ UNCHANGED task

\* async_update called, and run to its end, while async_set_port_based_vlan
\* is suspended in its device call (lines 313, 320, 327): nothing in the
\* coordinator keeps the scheduler from running the cycle there.  The round
\* of moves goes on: moves and clean keep counting from the last cycle that
\* ran between two handlers.
async_update_during_call(a) ==
    /\ task.op = "port_based"
    /\ task.pc = "await"
    /\ RefreshCycle(a)
    /\ task' = [ task EXCEPT !.refreshed = TRUE ]
    /\ UNCHANGED << moves, clean >>

\* ------------------------------------------------------------ device calls
\* TpLinkApi.set_port_based_vlan(vlanid, port_list)
set_port_based_vlan(vlanid, port_list) ==
    [ name |-> "set_port_based_vlan", vlanid |-> vlanid, ports |-> port_list,
      tag_ports |-> << >>, notmem_ports |-> << >>, number |-> 0 ]

\* TpLinkApi.del_port_based_vlan(vlanid)
del_port_based_vlan(vlanid) ==
    [ name |-> "del_port_based_vlan", vlanid |-> vlanid, ports |-> << >>,
      tag_ports |-> << >>, notmem_ports |-> << >>, number |-> 0 ]

\* TpLinkApi.set_1q_untag_vlan(vlanid, ungtag_ports, tag_ports, notmem_ports)
set_1q_untag_vlan(vlanid, vlan) ==
    [ name |-> "set_1q_untag_vlan", vlanid |-> vlanid, ports |-> vlan.ungtag_ports,
      tag_ports |-> vlan.tag_ports, notmem_ports |-> vlan.notmem_ports, number |-> 0 ]

\* TpLinkApi.set_1q_port_pvid(number, pvid)
set_1q_port_pvid(number, pvid) ==
    [ name |-> "set_1q_port_pvid", vlanid |-> pvid, ports |-> << >>,
      tag_ports |-> << >>, notmem_ports |-> << >>, number |-> number ]

NoCall == [ name |-> "", vlanid |-> 0, ports |-> << >>,
            tag_ports |-> << >>, notmem_ports |-> << >>, number |-> 0 ]

\* ------------------------------------------- async_set_port_based_vlan
\* slip: deletes when the old VLAN's list is already empty
del_action_when_empty(new_vlanid, old_vlanid, vlans) ==
    /\ new_vlanid = DefaultVlan
    /\ old_vlanid # DefaultVlan
    /\ DictHas(vlans, old_vlanid)
    /\ Len(vlans[old_vlanid]) = 0

\* slip: the test that spares VLAN 1 is missing
del_action_any_old(new_vlanid, old_vlanid, vlans) ==
    /\ new_vlanid = DefaultVlan
    /\ DictHas(vlans, old_vlanid)
    /\ Len(vlans[old_vlanid]) = 1

\* line 308: the old VLAN is deleted instead of resubmitted
del_action(new_vlanid, old_vlanid, vlans) ==
    /\ new_vlanid = DefaultVlan
    /\ old_vlanid # DefaultVlan
    /\ DictHas(vlans, old_vlanid)
    /\ Len(vlans[old_vlanid]) = 1

\* line 309
mod_old_action(new_vlanid, old_vlanid, vlans) ==
    /\ ~del_action(new_vlanid, old_vlanid, vlans)
    /\ new_vlanid = DefaultVlan

PlanRaise(e, vlans, old_vlanid, branch) ==
    [ exc |-> e, vlans |-> vlans, old_vlanid |-> old_vlanid, branch |-> branch,
      new_vlan_ports |-> << >>, call |-> NoCall ]

\* lines 316-322: modify the old VLAN (the target is VLAN 1)
PlanModOld(vlans, port_id, new_vlanid, old_vlanid) ==
    IF ~DictHas(vlans, old_vlanid)
    THEN PlanRaise("AttributeError", vlans, old_vlanid, "mod_old")
    ELSE IF ~Contains(vlans[old_vlanid], port_id)
    THEN PlanRaise("ValueError", vlans, old_vlanid, "mod_old")
    ELSE LET removed == [ vlans EXCEPT ![old_vlanid] = ListRemove(@, port_id) ]
         IN IF ~DictHas(removed, new_vlanid)
            THEN PlanRaise("AttributeError", removed, old_vlanid, "mod_old")
            ELSE [ exc |-> "", vlans |-> removed, old_vlanid |-> old_vlanid,
                   branch |-> "mod_old",
                   new_vlan_ports |-> << port_id >> \o removed[new_vlanid],
                   call |-> set_port_based_vlan(old_vlanid, removed[old_vlanid]) ]

\* slip: the members the new VLAN already has are not resubmitted
PlanSetNew_port_only(vlans, port_id, new_vlanid, old_vlanid) ==
    [ exc |-> "",
      vlans |-> IF DictHas(vlans, new_vlanid) THEN vlans
                ELSE DictSet(vlans, new_vlanid, << port_id >>),
      old_vlanid |-> old_vlanid, branch |-> "set_new",
      new_vlan_ports |-> << port_id >>,
      call |-> set_port_based_vlan(new_vlanid, << port_id >>) ]

\* lines 323-329: submit the new VLAN with the port put in front
PlanSetNew(vlans, port_id, new_vlanid, old_vlanid) ==
    IF ~DictHas(vlans, new_vlanid)
    THEN [ exc |-> "", vlans |-> DictSet(vlans, new_vlanid, << port_id >>),
           old_vlanid |-> old_vlanid, branch |-> "set_new",
           new_vlan_ports |-> << port_id >>,
           call |-> set_port_based_vlan(new_vlanid, << port_id >>) ]
    ELSE [ exc |-> "", vlans |-> vlans, old_vlanid |-> old_vlanid, branch |-> "set_new",
           new_vlan_ports |-> << port_id >> \o vlans[new_vlanid],
           call |-> set_port_based_vlan(new_vlanid, << port_id >> \o vlans[new_vlanid]) ]

\* lines 312-315: delete the old VLAN
PlanDel(vlans, port_id, new_vlanid, old_vlanid) ==
    [ exc |-> "", vlans |-> vlans, old_vlanid |-> old_vlanid, branch |-> "del",
      new_vlan_ports |-> << port_id >>, call |-> del_port_based_vlan(old_vlanid) ]

\* lines 302-329: everything up to the awaited device call
PortBasedPlan(ps, vlans, port_id, new_vlanid) ==
    IF port_id > Len(ps)
    THEN PlanRaise("IndexError", vlans, None, "")
    ELSE IF vlans = NoneDict
    THEN PlanRaise("AttributeError", vlans, ps[port_id].port_based_vlanid, "")
    ELSE LET old_vlanid == ps[port_id].port_based_vlanid
         IN IF del_action(new_vlanid, old_vlanid, vlans)
            THEN PlanDel(vlans, port_id, new_vlanid, old_vlanid)
            ELSE IF mod_old_action(new_vlanid, old_vlanid, vlans)
            THEN PlanModOld(vlans, port_id, new_vlanid, old_vlanid)
            ELSE PlanSetNew(vlans, port_id, new_vlanid, old_vlanid)

\* slip: the observers are notified before the VLAN table is patched
PortBasedPatch_notifies_early(ps, vlans, port_id, new_vlanid, new_vlan_ports) ==
    IF ~(Len(ps) >= port_id - 1)
    THEN [ exc |-> "", ps |-> ps, vlans |-> vlans, notified |-> FALSE ]
    ELSE IF port_id > Len(ps)
    THEN [ exc |-> "IndexError", ps |-> ps, vlans |-> vlans, notified |-> FALSE ]
    ELSE [ exc |-> "", ps |-> [ ps EXCEPT ![port_id].port_based_vlanid = new_vlanid ],
           vlans |-> vlans, notified |-> TRUE ]

\* lines 331-335: the cache patch after the device call returned
PortBasedPatch(ps, vlans, port_id, new_vlanid, new_vlan_ports) ==
    IF ~(Len(ps) >= port_id - 1)
    THEN [ exc |-> "", ps |-> ps, vlans |-> vlans, notified |-> FALSE ]
    ELSE IF port_id > Len(ps)
    THEN [ exc |-> "IndexError", ps |-> ps, vlans |-> vlans, notified |-> FALSE ]
    ELSE LET ps1 == [ ps EXCEPT ![port_id].port_based_vlanid = new_vlanid ]
         IN IF vlans = NoneDict
            THEN [ exc |-> "TypeError", ps |-> ps1, vlans |-> vlans, notified |-> FALSE ]
            ELSE IF ~DictHas(vlans, new_vlanid)
            THEN [ exc |-> "KeyError", ps |-> ps1, vlans |-> vlans, notified |-> FALSE ]
            ELSE [ exc |-> "", ps |-> ps1,
                   vlans |-> [ vlans EXCEPT ![new_vlanid] = new_vlan_ports ],
                   notified |-> TRUE ]

\* the handler is entered and runs to its device call (or raises before it)
async_set_port_based_vlan(port_id, new_vlanid) ==
    /\ task.pc = "idle"
    /\ moves < MaxMoves
    /\ moves' = moves + 1
    /\ LET plan == PortBasedPlan(port_states, port_based_vlans, port_id, new_vlanid)
           t0   == [ Idle EXCEPT !.op = "port_based", !.port_id = port_id,
                                 !.new_vlanid = new_vlanid,
                                 !.old_vlanid = plan.old_vlanid,
                                 !.branch = plan.branch,
                                 !.new_vlan_ports = plan.new_vlan_ports,
                                 !.pre_vlans = port_based_vlans,
                                 !.pre_states = port_states ]
       IN /\ port_based_vlans' = plan.vlans
          /\ IF plan.exc # ""
             THEN /\ task' = [ t0 EXCEPT !.pc = "raised", !.exc = plan.exc ]
                  /\ calls' = << >>
             ELSE /\ task' = [ t0 EXCEPT !.pc = "await" ]
                  /\ calls' = << plan.call >>
    /\ clean' = (clean /\ task'.pc # "raised")
    /\ UNCHANGED << port_states, port_based_vlan_enabled, vlan_1q_enabled, vlans_1q,
                    builder_in, builder_out, refresh_vars, client_vars >>

\* the awaited port-based device call returns, or raises
port_based_call_returns(ok) ==
    /\ task.op = "port_based"
    /\ task.pc = "await"
    /\ IF ~ok
       THEN /\ task' = [ task EXCEPT !.pc = "raised", !.exc = "DeviceError" ]
            /\ UNCHANGED << port_states, port_based_vlans >>
       ELSE LET r == PortBasedPatch(port_states, port_based_vlans, task.port_id,
                                    task.new_vlanid, task.new_vlan_ports)
            IN /\ port_states' = r.ps
               /\ port_based_vlans' = r.vlans
               /\ task' = [ task EXCEPT !.pc = IF r.exc = "" THEN "done" ELSE "raised",
                                        !.exc = r.exc, !.notified = r.notified ]
    /\ clean' = (clean /\ task'.pc # "raised")
    /\ UNCHANGED << port_based_vlan_enabled, vlan_1q_enabled, vlans_1q, calls, moves,
                    builder_in, builder_out, refresh_vars, client_vars >>

\* ------------------------------------------------------- set_port_state
\* TpLinkApi.set_port_state(number, enabled, speed_config, flow_control_config):
\* the query is built from the arguments as they are, no range test
api_set_port_state(number, enabled) ==
    [ name |-> "set_port_state", vlanid |-> 0, ports |-> << >>,
      tag_ports |-> << >>, notmem_ports |-> << >>, number |-> number ]

\* lines 274-277: the cache patch after the device call returned.
\* self._port_states[index] is Python list indexing: an index below zero
\* counts from the end, an index outside -len .. len-1 raises IndexError.
PortStatePatch(ps, number, enabled) ==
    LET index == number - 1
        pos   == IF index >= 0 THEN index + 1 ELSE Len(ps) + index + 1
    IN IF ~(Len(ps) >= index)
       THEN [ exc |-> "", ps |-> ps, notified |-> FALSE ]
       ELSE IF index >= Len(ps) \/ index < 0 - Len(ps)
       THEN [ exc |-> "IndexError", ps |-> ps, notified |-> FALSE ]
       ELSE [ exc |-> "", ps |-> [ ps EXCEPT ![pos].enabled = enabled ],
              notified |-> TRUE ]

\* lines 262-272: the handler is entered and awaits the device call
set_port_state(number, enabled) ==
    /\ task.pc = "idle"
    /\ task' = [ Idle EXCEPT !.op = "port_state", !.pc = "await", !.port_id = number,
                             !.enabled = enabled, !.pre_vlans = port_based_vlans,
                             !.pre_states = port_states ]
    /\ calls' = << api_set_port_state(number, enabled) >>
    /\ UNCHANGED << port_states, port_based_vlan_enabled, port_based_vlans,
                    vlan_1q_enabled, vlans_1q, moves, clean, builder_in, builder_out,
                    refresh_vars, client_vars >>

\* the awaited set_port_state call returns, or raises
port_state_call_returns(ok) ==
    /\ task.op = "port_state"
    /\ task.pc = "await"
    /\ IF ~ok
       THEN /\ task' = [ task EXCEPT !.pc = "raised", !.exc = "DeviceError" ]
            /\ UNCHANGED port_states
       ELSE LET r == PortStatePatch(port_states, task.port_id, task.enabled)
            IN /\ port_states' = r.ps
               /\ task' = [ task EXCEPT !.pc = IF r.exc = "" THEN "done" ELSE "raised",
                                        !.exc = r.exc, !.notified = r.notified ]
    /\ clean' = (clean /\ task'.pc # "raised")
    /\ UNCHANGED << port_based_vlan_enabled, port_based_vlans, vlan_1q_enabled, vlans_1q,
                    calls, moves, builder_in, builder_out, refresh_vars, client_vars >>

\* the handler has returned (or its exception reached the caller)
handler_returns ==
    /\ task.pc \in { "done", "raised" }
    /\ task' = Idle
    /\ calls' = << >>
    /\ UNCHANGED << port_states, port_based_vlan_enabled, port_based_vlans,
                    vlan_1q_enabled, vlans_1q, moves, clean, builder_in, builder_out,
                    refresh_vars, client_vars >>

\* --------------------------------------------- async_set_untag_1q_vlan
\* lines 347-348: the port leaves the old VLAN's untagged list
PatchOld1Q(vlan, port_id) ==
    [ vlan EXCEPT !.ungtag_ports = ListRemove(@, port_id),
                  !.notmem_ports = Append(@, port_id) ]

\* lines 351-352: the port joins the new VLAN's untagged list
PatchNew1Q(vlan, port_id) ==
    [ vlan EXCEPT !.ungtag_ports = Append(@, port_id),
                  !.notmem_ports = ListRemove(@, port_id) ]

\* lines 341-353: the cache patch, statement by statement; an exception
\* leaves the statements before it applied
Patch1Q(ps, vlans, port_id, new_vlanid) ==
    IF port_id > Len(ps)
    THEN [ exc |-> "IndexError", ps |-> ps, vlans |-> vlans, old_vlanid |-> None,
           notified |-> FALSE ]
    ELSE
    LET old_vlanid == ps[port_id].pvid_1q_vlanid
        ps1 == [ ps EXCEPT ![port_id].pvid_1q_vlanid = new_vlanid ]
        out(e, v, n) == [ exc |-> e, ps |-> ps1, vlans |-> v, old_vlanid |-> old_vlanid,
                          notified |-> n ]
    IN IF vlans = NoneDict THEN out("TypeError", vlans, FALSE)
       ELSE IF ~DictHas(vlans, old_vlanid) THEN out("KeyError", vlans, FALSE)
       ELSE IF ~Contains(vlans[old_vlanid].ungtag_ports, port_id)
       THEN out("ValueError", vlans, FALSE)
       ELSE LET v1 == [ vlans EXCEPT ![old_vlanid] = PatchOld1Q(@, port_id) ]
            IN IF ~DictHas(v1, new_vlanid) THEN out("KeyError", v1, FALSE)
               ELSE LET v2 == [ v1 EXCEPT ![new_vlanid].ungtag_ports = Append(@, port_id) ]
                    IN IF ~Contains(v2[new_vlanid].notmem_ports, port_id)
                       THEN out("ValueError", v2, FALSE)
                       ELSE out("", [ v1 EXCEPT ![new_vlanid] = PatchNew1Q(@, port_id) ], TRUE)

\* slip: the old VLAN is submitted before the new one
Call1Q_old_first(k, vlans, port_id, new_vlanid, old_vlanid) ==
    IF k = 1 THEN set_1q_untag_vlan(old_vlanid, vlans[old_vlanid])
    ELSE IF k = 2 THEN set_1q_untag_vlan(new_vlanid, vlans[new_vlanid])
    ELSE set_1q_port_pvid(port_id, new_vlanid)

\* the three device calls, in the order the handler awaits them
Call1Q(k, vlans, port_id, new_vlanid, old_vlanid) ==
    IF k = 1 THEN set_1q_untag_vlan(new_vlanid, vlans[new_vlanid])
    ELSE IF k = 2 THEN set_1q_untag_vlan(old_vlanid, vlans[old_vlanid])
    ELSE set_1q_port_pvid(port_id, new_vlanid)

\* self._1q_vlans.get(vid) followed by the attribute reads of call k
CallReadable1Q(k, vlans, new_vlanid, old_vlanid) ==
    IF k = 1 THEN vlans # NoneDict /\ DictHas(vlans, new_vlanid)
    ELSE IF k = 2 THEN vlans # NoneDict /\ DictHas(vlans, old_vlanid)
    ELSE TRUE

\* VLAN names the select entity offers: the keys of the cached table
Options1Q == IF vlans_1q = NoneDict THEN Range(QVids) ELSE DOMAIN vlans_1q

\* the handler is entered, patches the cache and runs to its first device call
async_set_untag_1q_vlan(port_id, new_vlanid) ==
    /\ task.pc = "idle"
    /\ LET r  == Patch1Q(port_states, vlans_1q, port_id, new_vlanid)
           t0 == [ Idle EXCEPT !.op = "ieee_1q", !.port_id = port_id,
                               !.new_vlanid = new_vlanid, !.old_vlanid = r.old_vlanid,
                               !.notified = r.notified,
                               !.pre_vlans = vlans_1q, !.pre_states = port_states ]
       IN /\ port_states' = r.ps
          /\ vlans_1q' = r.vlans
          /\ IF r.exc # ""
             THEN /\ task' = [ t0 EXCEPT !.pc = "raised", !.exc = r.exc ]
                  /\ calls' = << >>
             ELSE IF ~CallReadable1Q(1, r.vlans, new_vlanid, r.old_vlanid)
             THEN /\ task' = [ t0 EXCEPT !.pc = "raised", !.exc = "AttributeError" ]
                  /\ calls' = << >>
             ELSE /\ task' = [ t0 EXCEPT !.pc = "call1" ]
                  /\ calls' = << Call1Q(1, r.vlans, port_id, new_vlanid, r.old_vlanid) >>
    /\ clean' = (clean /\ task'.pc # "raised")
    /\ moves' = IF moves < MaxMoves THEN moves + 1 ELSE moves
    /\ UNCHANGED << port_based_vlan_enabled, port_based_vlans, vlan_1q_enabled,
                    builder_in, builder_out, refresh_vars, client_vars >>

NextPc1Q(pc) == IF pc = "call1" THEN "call2" ELSE IF pc = "call2" THEN "call3" ELSE "done"

CallNo1Q(pc) == IF pc = "call1" THEN 1 ELSE IF pc = "call2" THEN 2 ELSE 3

\* slip: a failed device call puts the cache back as it was
ieee_1q_call_returns_rolls_back(ok) ==
    /\ task.op = "ieee_1q"
    /\ task.pc \in { "call1", "call2", "call3" }
    /\ IF ~ok
       THEN /\ task' = [ task EXCEPT !.pc = "raised", !.exc = "DeviceError" ]
            /\ port_states' = task.pre_states
            /\ vlans_1q' = task.pre_vlans
            /\ UNCHANGED calls
       ELSE LET next == NextPc1Q(task.pc)
                k    == CallNo1Q(next)
            IN /\ UNCHANGED << port_states, vlans_1q >>
               /\ IF next = "done"
                  THEN /\ task' = [ task EXCEPT !.pc = "done" ]
                       /\ UNCHANGED calls
                  ELSE /\ task' = [ task EXCEPT !.pc = next ]
                       /\ calls' = Append(calls, Call1Q(k, vlans_1q, task.port_id,
                                                        task.new_vlanid, task.old_vlanid))
    /\ clean' = (clean /\ task'.pc # "raised")
    /\ UNCHANGED << port_based_vlan_enabled, port_based_vlans, vlan_1q_enabled, moves,
                    builder_in, builder_out, refresh_vars, client_vars >>

\* the awaited 802.1Q device call returns, or raises; on return the handler
\* runs to its next device call
ieee_1q_call_returns(ok) ==
    /\ task.op = "ieee_1q"
    /\ task.pc \in { "call1", "call2", "call3" }
    /\ IF ~ok
       THEN /\ task' = [ task EXCEPT !.pc = "raised", !.exc = "DeviceError" ]
            /\ UNCHANGED calls
       ELSE LET next == NextPc1Q(task.pc)
                k    == CallNo1Q(next)
            IN IF next = "done"
               THEN /\ task' = [ task EXCEPT !.pc = "done" ]
                    /\ UNCHANGED calls
               ELSE IF ~CallReadable1Q(k, vlans_1q, task.new_vlanid, task.old_vlanid)
               THEN /\ task' = [ task EXCEPT !.pc = "raised", !.exc = "AttributeError" ]
                    /\ UNCHANGED calls
               ELSE /\ task' = [ task EXCEPT !.pc = next ]
                    /\ calls' = Append(calls, Call1Q(k, vlans_1q, task.port_id,
                                                     task.new_vlanid, task.old_vlanid))
    /\ clean' = (clean /\ task'.pc # "raised")
    /\ UNCHANGED << port_states, port_based_vlan_enabled, port_based_vlans,
                    vlan_1q_enabled, vlans_1q, moves, builder_in, builder_out,
                    refresh_vars, client_vars >>

\* ------------------------------------------------- PoE client, writes
\* _POE_PRIORITIES_SET_MAP
POE_PRIORITIES_SET_MAP == [ HIGH |-> 1, MIDDLE |-> 2, LOW |-> 3 ]

\* _POE_POWER_LIMITS_SET_MAP: wire code and the text sent beside it
NoText == [ kind |-> "None" ]

Text(t) == [ kind |-> "str", text |-> t ]

POE_POWER_LIMITS_SET_MAP ==
    [ AUTO    |-> << 1, NoText >>,
      CLASS_1 |-> << 2, Text("(4w)") >>,
      CLASS_2 |-> << 3, Text("(7w)") >>,
      CLASS_3 |-> << 4, Text("(15.4w)") >>,
      CLASS_4 |-> << 5, Text("(30w)") >> ]

\* a power_limit argument: a PoePowerLimit member, a float (kept in tenths of
\* a watt) or a value of any other type
PoePowerLimit(name) == [ kind |-> "PoePowerLimit", name |-> name ]

Float(tenths) == [ kind |-> "float", tenths |-> tenths ]

OtherValue == [ kind |-> "other" ]

\* wire code of a custom limit, and the range 0.1 .. 30.0 in tenths
CustomLimitCode == 6
CustomLimitMin == 1
CustomLimitMax == 300

Mapped(code, second) ==
    [ kind |-> "ok", ppowerlimit |-> code, ppowerlimit2 |-> second, exc |-> "", msg |-> "" ]

Unmapped(exc, msg) ==
    [ kind |-> "raise", ppowerlimit |-> 0, ppowerlimit2 |-> NoText, exc |-> exc, msg |-> msg ]

\* slip: the range test excludes its end points
PowerLimitCode_open_range(power_limit) ==
    IF power_limit.kind = "PoePowerLimit"
    THEN IF power_limit.name \in DOMAIN POE_POWER_LIMITS_SET_MAP
         THEN Mapped(POE_POWER_LIMITS_SET_MAP[power_limit.name][1],
                     POE_POWER_LIMITS_SET_MAP[power_limit.name][2])
         ELSE Unmapped("TypeError", "")
    ELSE IF power_limit.kind = "float"
    THEN IF CustomLimitMin < power_limit.tenths /\ power_limit.tenths < CustomLimitMax
         THEN Mapped(CustomLimitCode, power_limit)
         ELSE Unmapped("ActionError", "Power limit must be in range of 0.1-30.0")
    ELSE Unmapped("ActionError", "Invalid power_limit specified")

\* set_port_poe_settings, the isinstance chain: the power limit's wire
\* encoding; unpacking the map's None for an unlisted member is a TypeError
PowerLimitCode(power_limit) ==
    IF power_limit.kind = "PoePowerLimit"
    THEN IF power_limit.name \in DOMAIN POE_POWER_LIMITS_SET_MAP
         THEN Mapped(POE_POWER_LIMITS_SET_MAP[power_limit.name][1],
                     POE_POWER_LIMITS_SET_MAP[power_limit.name][2])
         ELSE Unmapped("TypeError", "")
    ELSE IF power_limit.kind = "float"
    THEN IF CustomLimitMin <= power_limit.tenths /\ power_limit.tenths <= CustomLimitMax
         THEN Mapped(CustomLimitCode, power_limit)
         ELSE Unmapped("ActionError", "Power limit must be in range of 0.1-30.0")
    ELSE Unmapped("ActionError", "Invalid power_limit specified")

PortPoeForm(port_number, pstate, ppriority, limit) ==
    [ name_pstate |-> pstate, name_ppriority |-> ppriority,
      name_ppowerlimit |-> limit.ppowerlimit, name_ppowerlimit2 |-> limit.ppowerlimit2,
      sel |-> port_number, applay |-> "Apply" ]

\* TpLinkApi.set_port_poe_settings
set_port_poe_settings(available, fetch, port_number, enabled, priority, power_limit, post_ok) ==
    LET read == << Get(URL_POE_SETTINGS_GET) >>
    IN IF ~available
       THEN Raised("ActionError", "POE feature is not supported by device", << >>)
       ELSE IF port_number < 1
       THEN Raised("ActionError", "Port number should be greater than or equals to 1", << >>)
       ELSE IF fetch.raise THEN Raised("DeviceError", "", read)
       ELSE IF fetch.page.poe_port_num = 0
       THEN Raised("ActionError", "Can not get PoE ports count", read)
       ELSE IF port_number > fetch.page.poe_port_num
       THEN Raised("ActionError", "Port number should be less than or equals to", read)
       ELSE IF priority \notin DOMAIN POE_PRIORITIES_SET_MAP
       THEN Raised("ActionError", "Invalid PoePriority specified", read)
       ELSE LET limit == PowerLimitCode(power_limit)
                form  == PortPoeForm(port_number, IF enabled THEN 2 ELSE 1,
                                     POE_PRIORITIES_SET_MAP[priority], limit)
                sent  == Append(read, Post(URL_POE_PORT_SETTINGS_SET, form))
            IN IF limit.kind = "raise" THEN Raised(limit.exc, limit.msg, read)
               ELSE IF ~post_ok THEN Raised("DeviceError", "", sent)
               ELSE Ret(None, sent)

PoeLimitForm(limit, current_state) ==
    [ name_powerlimit |-> limit, name_powerconsumption |-> current_state.power_consumption,
      name_powerremain |-> current_state.power_remain, applay |-> "Apply" ]

\* slip: the feature gate is missing
set_poe_limit_ungated(available, fetch, limit, post_ok) ==
    LET current == get_poe_state(TRUE, fetch)
    IN IF current.kind = "raise" THEN current
       ELSE IF current.value = NonePoeState
       THEN Raised("ActionError", "Can not get actual PoE state", current.requests)
       ELSE IF limit < current.value.power_limit_min
       THEN Raised("ActionError", "PoE limit should be greater than or equal to",
                   current.requests)
       ELSE IF limit > current.value.power_limit_max
       THEN Raised("ActionError", "PoE limit should be less than or equal to",
                   current.requests)
       ELSE LET sent == Append(current.requests,
                               Post(URL_POE_SETTINGS_SET, PoeLimitForm(limit, current.value)))
            IN IF ~post_ok THEN Raised("DeviceError", "", sent) ELSE Ret(None, sent)

\* slip: the upper bound is not tested
set_poe_limit_no_upper_bound(available, fetch, limit, post_ok) ==
    IF ~available
    THEN Raised("ActionError", "POE feature is not supported by device", << >>)
    ELSE LET current == get_poe_state(available, fetch)
         IN IF current.kind = "raise" THEN current
            ELSE IF current.value = NonePoeState
            THEN Raised("ActionError", "Can not get actual PoE state", current.requests)
            ELSE IF limit < current.value.power_limit_min
            THEN Raised("ActionError", "PoE limit should be greater than or equal to",
                        current.requests)
            ELSE LET sent == Append(current.requests,
                                    Post(URL_POE_SETTINGS_SET, PoeLimitForm(limit, current.value)))
                 IN IF ~post_ok THEN Raised("DeviceError", "", sent) ELSE Ret(None, sent)

\* TpLinkApi.set_poe_limit; the limit and the bounds are in tenths of a watt
set_poe_limit(available, fetch, limit, post_ok) ==
    IF ~available
    THEN Raised("ActionError", "POE feature is not supported by device", << >>)
    ELSE LET current == get_poe_state(available, fetch)
         IN IF current.kind = "raise" THEN current
            ELSE IF current.value = NonePoeState
            THEN Raised("ActionError", "Can not get actual PoE state", current.requests)
            ELSE IF limit < current.value.power_limit_min
            THEN Raised("ActionError", "PoE limit should be greater than or equal to",
                        current.requests)
            ELSE IF limit > current.value.power_limit_max
            THEN Raised("ActionError", "PoE limit should be less than or equal to",
                        current.requests)
            ELSE LET sent == Append(current.requests,
                                    Post(URL_POE_SETTINGS_SET, PoeLimitForm(limit, current.value)))
                 IN IF ~post_ok THEN Raised("DeviceError", "", sent) ELSE Ret(None, sent)

\* no client call has been made on its own
NoApiTask == [ op |-> "" ]

\* ------------------------------------------ is_feature_available, in flight
\* Callers of is_feature_available that may overlap at its await.
FeatureCallers == 3
MaxFeatureUpdates == 3

FeatureCall(pc, result) == [ pc |-> pc, result |-> result ]

NoFeatureCalls == [ c \in 1..FeatureCallers |-> FeatureCall("idle", FALSE) ]

\* is_feature_available is entered: _ensure_features_updated tests the flag
\* and either starts the detector's update() and waits for it, or goes on to
\* self._features.is_available(feature) at once
call_is_feature_available(c) ==
    /\ feature_calls[c].pc = "idle"
    /\ IF ~is_features_updated
       THEN /\ feature_updates < MaxFeatureUpdates
            /\ feature_updates' = feature_updates + 1
            /\ feature_calls' = [ feature_calls EXCEPT ![c] = FeatureCall("update", FALSE) ]
       ELSE /\ feature_calls' = [ feature_calls EXCEPT ![c] = FeatureCall("done", feature_poe) ]
            /\ UNCHANGED feature_updates
    /\ UNCHANGED << coordinator_vars, builder_in, builder_out, is_features_updated,
                    feature_poe, requests, api_task >>

\* the awaited update() returns: the detector holds what it found, the flag
\* is set and is_available answers from the detector
features_update_returns(c, detected) ==
    /\ feature_calls[c].pc = "update"
    /\ feature_poe' = detected
    /\ is_features_updated' = TRUE
    /\ feature_calls' = [ feature_calls EXCEPT ![c] = FeatureCall("done", detected) ]
    /\ UNCHANGED << coordinator_vars, builder_in, builder_out, feature_updates,
                    requests, api_task >>

\* the caller has its answer
is_feature_available_returns(c) ==
    /\ feature_calls[c].pc = "done"
    /\ feature_calls' = [ feature_calls EXCEPT ![c] = FeatureCall("idle", FALSE) ]
    /\ UNCHANGED << coordinator_vars, builder_in, builder_out, is_features_updated,
                    feature_poe, feature_updates, requests, api_task >>

NextFeatures ==
    \/ \E c \in 1..FeatureCallers : call_is_feature_available(c)
    \/ \E c \in 1..FeatureCallers, detected \in FeaturesDetected :
           features_update_returns(c, detected)
    \/ \E c \in 1..FeatureCallers : is_feature_available_returns(c)

\* ------------------------------------------------------- specification
\* the coordinator as constructed (__init__, lines 44-51)
Init ==
    /\ port_states = << >>
    /\ port_based_vlan_enabled = FALSE
    /\ port_based_vlans = NoneDict
    /\ vlan_1q_enabled = FALSE
    /\ vlans_1q = NoneDict
    /\ calls = << >>
    /\ task = Idle
    /\ moves = 0
    /\ clean = TRUE
    /\ builder_in = [ page |-> "", data |-> QOff ]
    /\ builder_out = BuilderPending
    /\ switch_info = NoneSwitchInfo
    /\ poe_state = NonePoeState
    /\ port_poe_states = << >>
    /\ is_features_updated = FALSE
    /\ feature_poe = FALSE
    /\ last_update = NoAnswer
    /\ requests = << >>
    /\ api_task = NoApiTask
    /\ update_task = NoUpdateTask
    /\ feature_calls = NoFeatureCalls
    /\ feature_updates = 0

\* A switch in port-based VLAN mode: select.py creates the port-based select
\* entities only, so only port-based moves are requested.
NextPortBased ==
    \/ \E a \in PortBasedAnswers : async_update(a)
    \/ \E p \in 1..PBPorts, v \in PBVids : async_set_port_based_vlan(p, v)
    \/ \E ok \in BOOLEAN : port_based_call_returns(ok)
    \/ handler_returns

SpecPortBased == Init /\ [][NextPortBased]_vars

\* A switch in 802.1Q VLAN mode: only the 802.1Q select entities exist.
Next1Q ==
    \/ \E a \in Answers1Q : async_update(a)
    \/ \E p \in 1..QPorts, v \in Options1Q : async_set_untag_1q_vlan(p, v)
    \/ \E ok \in BOOLEAN : ieee_1q_call_returns(ok)
    \/ handler_returns

Spec1Q == Init /\ [][Next1Q]_vars

\* A switch that may be found in either VLAN mode at a refresh, with the moves
\* of both modes requested against whatever the cache holds.  The pages are
\* those with every port in VLAN 1 or 2 (port-based) and every port untagged
\* or tagged in each VLAN (802.1Q); either VLAN page may fail.
MovesPBFetches ==
    { Fetched(PBDevicePage(a)) : a \in [ 1..PBPorts -> { DefaultVlan, DefaultVlan + 1 } ] }
        \cup { Fetched(PBOff), [ raise |-> TRUE, data |-> PBOff ] }

MovesQFetches ==
    { Fetched(QDevicePage(t)) : t \in [ 1..Len(QVids) -> [ 1..QPorts -> 0..1 ] ] }
        \cup { Fetched(QOff), [ raise |-> TRUE, data |-> QOff ] }

MovesAnswers ==
    { Answer(TRUE, PBPorts, pb, Fetched(QOff)) : pb \in MovesPBFetches } \cup
    { Answer(TRUE, QPorts, Fetched(PBOff), q) : q \in MovesQFetches }

NextMoves ==
    \/ \E a \in MovesAnswers : async_update(a)
    \/ \E p \in 1..PBPorts, v \in PBVids : async_set_port_based_vlan(p, v)
    \/ \E ok \in BOOLEAN : port_based_call_returns(ok)
    \/ \E p \in 1..QPorts, v \in Options1Q : async_set_untag_1q_vlan(p, v)
    \/ \E ok \in BOOLEAN : ieee_1q_call_returns(ok)
    \/ handler_returns

SpecMoves == Init /\ [][NextMoves]_vars

\* A switch in port-based VLAN mode whose refresh timer is not held back
\* while a move is in flight: the cycle may run between the move's device
\* call and its return.  The switch shows every port in VLAN 1 or 2, or the
\* port page or the VLAN page fails.
NextInterleaved ==
    \/ \E ok \in BOOLEAN, pb \in MovesPBFetches :
          async_update(Answer(ok, PBPorts, pb, Fetched(QOff)))
    \/ \E p \in 1..PBPorts, v \in PBVids : async_set_port_based_vlan(p, v)
    \/ \E ok \in BOOLEAN, pb \in MovesPBFetches :
          async_update_during_call(Answer(ok, PBPorts, pb, Fetched(QOff)))
    \/ \E ok \in BOOLEAN : port_based_call_returns(ok)
    \/ handler_returns

SpecInterleaved == Init /\ [][NextInterleaved]_vars

\* A switch whose ports are switched on and off: the port page answers or
\* fails, the port-based page is off or shows every port in VLAN 1, and the
\* port numbers requested reach below 1 and above the port count.
NextPortState ==
    \/ \E ok \in BOOLEAN,
          pb \in { Fetched(PBOff),
                   Fetched(PBDevicePage([ p \in 1..PBPorts |-> DefaultVlan ])) } :
          async_update(Answer(ok, PBPorts, pb, Fetched(QOff)))
    \/ \E n \in (0 - 1)..(PBPorts + 2), e \in BOOLEAN : set_port_state(n, e)
    \/ \E ok \in BOOLEAN : port_state_call_returns(ok)
    \/ handler_returns

SpecPortState == Init /\ [][NextPortState]_vars

\* ------------------------------------------------- the refresh cycle
\* A PoE switch of QPorts ports polled again and again.  Either VLAN page
\* may be on, off, lacking a field or unreachable; the PoE page may lack its
\* variables or fail on either of its two fetches; the system-info page and
\* the port page may fail.
RefreshPoePage ==
    PoePage(GlobalConfig(100, 10, 200),
            [ n \in 1..QPorts |-> PortConfig(1, "HIGH", "AUTO") ], QPorts)

PoeFetchPairs ==
    { << PoeFetched(RefreshPoePage), PoeFetched(RefreshPoePage) >>,
      << PoeFetchRaises, PoeFetched(RefreshPoePage) >>,
      << PoeFetched(RefreshPoePage), PoeFetchRaises >>,
      << PoeFetched(NoPoePage), PoeFetched(NoPoePage) >> }

RefreshPBFetches == { Fetched(d) : d \in {PBOff, RefreshPBPage} \cup PBLackingPages }
                        \cup { [ raise |-> TRUE, data |-> PBOff ] }

RefreshQFetches == { Fetched(d) : d \in {QOff, RefreshQPage} \cup QLackingPages }
                       \cup { [ raise |-> TRUE, data |-> QOff ] }

RefreshAnswers ==
    { RefreshAnswer(TRUE, ok, QPorts, feature, PoeFetched(RefreshPoePage),
                    PoeFetched(RefreshPoePage), pb, q) :
        ok \in BOOLEAN, feature \in FeaturesDetected,
        pb \in RefreshPBFetches, q \in RefreshQFetches }
    \cup { RefreshAnswer(info_ok, ok, QPorts, feature, pair[1], pair[2],
                         Fetched(RefreshPBPage), Fetched(RefreshQPage)) :
             info_ok \in BOOLEAN, ok \in BOOLEAN, feature \in FeaturesDetected,
             pair \in PoeFetchPairs }

NextRefresh == \E a \in RefreshAnswers : async_update(a)

SpecRefresh == Init /\ [][NextRefresh]_vars

\* ------------------------------------------- the PoE client on its own
\* One action is one call of a TpLinkApi PoE method.  The first call runs the
\* feature detector; later calls use its kept answer.
PoePriorityMembers == { "HIGH", "MIDDLE", "LOW" }

PoePowerLimitMembers == { "AUTO", "CLASS_1", "CLASS_2", "CLASS_3", "CLASS_4" }

PoeConfigs == { NoConfig, GlobalConfig(15, 10, 20), GlobalConfig(15, 15, 30) }

PoePortConfigs == [ n \in 1..PoePorts |-> PortConfig(1, "HIGH", "AUTO") ]

PoeClientPages ==
    { PoePage(g, << >>, 0) : g \in PoeConfigs } \cup
    { PoePage(g, PoePortConfigs, PoePorts) : g \in PoeConfigs }

PoeClientFetches == { PoeFetched(p) : p \in PoeClientPages } \cup { PoeFetchRaises }

PoeLimits == { 5, 10, 15, 20, 25, 30, 35 }

PriorityInputs == PoePriorityMembers \cup { "None" }

PowerLimitInputs ==
    { PoePowerLimit(m) : m \in PoePowerLimitMembers } \cup
    { Float(t) : t \in { 0, CustomLimitMin, 150, CustomLimitMax, CustomLimitMax + 1 } } \cup
    { OtherValue }

PortSettings(fetch, port_number, enabled, priority, power_limit, post_ok) ==
    [ fetch |-> fetch, port_number |-> port_number, enabled |-> enabled,
      priority |-> priority, power_limit |-> power_limit, post_ok |-> post_ok ]

\* every priority and power limit on a port the device has; every port number
\* and page with a valid priority and power limit
PortSettingsInputs ==
    { PortSettings(PoeFetched(PoePage(NoConfig, PoePortConfigs, PoePorts)), 1, e, p, l, ok) :
        e \in BOOLEAN, p \in PriorityInputs, l \in PowerLimitInputs, ok \in BOOLEAN } \cup
    { PortSettings(f, n, TRUE, "HIGH", PoePowerLimit("AUTO"), TRUE) :
        f \in PoeClientFetches, n \in 0..(PoePorts + 1) }

Detections == IF is_features_updated THEN { feature_poe } ELSE FeaturesDetected

ApiTask(op, available, fetch, args, limit, post_ok, result) ==
    [ op |-> op, available |-> available, fetch |-> fetch,
      port_number |-> args.port_number, enabled |-> args.enabled,
      priority |-> args.priority, power_limit |-> args.power_limit,
      limit |-> limit, post_ok |-> post_ok, result |-> result ]

NoArgs == PortSettings(PoeFetchRaises, 0, FALSE, "None", OtherValue, FALSE)

ApiCall(op, available, fetch, args, limit, post_ok, result) ==
    /\ is_features_updated' = TRUE
    /\ feature_poe' = available
    /\ requests' = result.requests
    /\ api_task' = ApiTask(op, available, fetch, args, limit, post_ok, result)
    /\ UNCHANGED << coordinator_vars, builder_in, builder_out, feature_calls, feature_updates >>

run_get_poe_state ==
    \E detected \in Detections, fetch \in PoeClientFetches :
        LET available == is_feature_available(is_features_updated, feature_poe, detected)
        IN ApiCall("get_poe_state", available, fetch, NoArgs, 0, FALSE,
                   get_poe_state(available, fetch))

run_get_port_poe_states ==
    \E detected \in Detections, fetch \in PoeClientFetches :
        LET available == is_feature_available(is_features_updated, feature_poe, detected)
        IN ApiCall("get_port_poe_states", available, fetch, NoArgs, 0, FALSE,
                   get_port_poe_states(available, fetch))

run_set_poe_limit ==
    \E detected \in Detections, fetch \in PoeClientFetches, limit \in PoeLimits,
       post_ok \in BOOLEAN :
        LET available == is_feature_available(is_features_updated, feature_poe, detected)
        IN ApiCall("set_poe_limit", available, fetch, NoArgs, limit, post_ok,
                   set_poe_limit(available, fetch, limit, post_ok))

run_set_port_poe_settings ==
    \E detected \in Detections, s \in PortSettingsInputs :
        LET available == is_feature_available(is_features_updated, feature_poe, detected)
        IN ApiCall("set_port_poe_settings", available, s.fetch, s, 0, s.post_ok,
                   set_port_poe_settings(available, s.fetch, s.port_number, s.enabled,
                                         s.priority, s.power_limit, s.post_ok))

NextPoe ==
    \/ run_get_poe_state
    \/ run_get_port_poe_states
    \/ run_set_poe_limit
    \/ run_set_port_poe_settings

SpecPoe == Init /\ [][NextPoe]_vars

\* is_feature_available called by tasks that may overlap on one TpLinkApi
SpecFeatures == Init /\ [][NextFeatures]_vars

\* ------------------------------------------- the builders on their own
\* Pages a builder can be handed: any port count up to BuilderMaxPorts, one
\* or two VLANs in either order, any masks below 2^MaskBits (overlapping,
\* zero and beyond-port-count masks included), and pages lacking a field.
BuilderVidLists == { << 1 >>, << 2 >>, << 1, 2 >>, << 2, 1 >> }

Masks == 0..(Pow2(MaskBits) - 1)

MaskLists(n) == [ 1..n -> Masks ]

BuilderPBPages ==
    { PBPage(1, n, vids, m) :
        n \in 1..BuilderMaxPorts, vids \in BuilderVidLists, m \in MaskLists(1) \cup MaskLists(2) }
    \cup { PBPage(0, 1, << 1 >>, << 1 >>), PBPage(1, 0, << 1 >>, << 1 >>),
           PBPage(1, 1, << >>, << 1 >>), PBPage(1, 1, << 1 >>, << >>) }

BuilderQPages ==
    { QPage(1, n, vids, u, t) :
        n \in 1..BuilderMaxPorts, vids \in BuilderVidLists,
        u \in MaskLists(1) \cup MaskLists(2), t \in MaskLists(1) \cup MaskLists(2) }
    \cup { QPage(0, 1, << 1 >>, << 1 >>, << 0 >>), QPage(1, 0, << 1 >>, << 1 >>, << 0 >>),
           QPage(1, 1, << >>, << 1 >>, << 0 >>), QPage(1, 1, << 1 >>, << >>, << 0 >>),
           QPage(1, 1, << 1 >>, << 1 >>, << >>) }

\* the page has one mask per listed VLAN (or lacks a field altogether)
WellSizedPB(d) == d.mbrs = << >> \/ d.vids = << >> \/ Len(d.mbrs) = Len(d.vids)

WellSized1Q(d) ==
    \/ d.vids = << >> \/ d.untagMbrs = << >> \/ d.tagMbrs = << >>
    \/ (Len(d.untagMbrs) = Len(d.vids) /\ Len(d.tagMbrs) = Len(d.vids))

BuilderInputs ==
    { [ page |-> "port_based", data |-> d ] : d \in { x \in BuilderPBPages : WellSizedPB(x) } }
    \cup { [ page |-> "ieee_1q", data |-> d ] : d \in { x \in BuilderQPages : WellSized1Q(x) } }

InitBuilder ==
    /\ port_states = << >>
    /\ port_based_vlan_enabled = FALSE
    /\ port_based_vlans = NoneDict
    /\ vlan_1q_enabled = FALSE
    /\ vlans_1q = NoneDict
    /\ calls = << >>
    /\ task = Idle
    /\ moves = 0
    /\ clean = TRUE
    /\ builder_in \in BuilderInputs
    /\ builder_out = BuilderPending
    /\ switch_info = NoneSwitchInfo
    /\ poe_state = NonePoeState
    /\ port_poe_states = << >>
    /\ is_features_updated = FALSE
    /\ feature_poe = FALSE
    /\ last_update = NoAnswer
    /\ requests = << >>
    /\ api_task = NoApiTask
    /\ update_task = NoUpdateTask
    /\ feature_calls = NoFeatureCalls
    /\ feature_updates = 0

run_get_port_based_vlan_info ==
    /\ builder_in.page = "port_based"
    /\ builder_out = BuilderPending
    /\ builder_out' = get_port_based_vlan_info(builder_in.data)
    /\ UNCHANGED << coordinator_vars, builder_in, is_features_updated, feature_poe,
                    client_vars >>

run_get_1q_vlan_info ==
    /\ builder_in.page = "ieee_1q"
    /\ builder_out = BuilderPending
    /\ builder_out' = get_1q_vlan_info(builder_in.data)
    /\ UNCHANGED << coordinator_vars, builder_in, is_features_updated, feature_poe,
                    client_vars >>

NextBuilder == run_get_port_based_vlan_info \/ run_get_1q_vlan_info

SpecBuilder == InitBuilder /\ [][NextBuilder]_vars

\* =========================================================== properties
\* The handler the properties speak about: the port it moves, the port's VLAN
\* when it was entered, the requested VLAN, the cache when it was entered.
MovedPort == task.port_id
OldVlan == task.old_vlanid
NewVlan == task.new_vlanid
PreVlans == task.pre_vlans

Without(s, x) == SelectSeq(s, LAMBDA y : y # x)

IsDelCall(c, vid) == c.name = "del_port_based_vlan" /\ c.vlanid = vid

\* the port is moved to VLAN 1 out of a non-default VLAN whose cached member
\* list is just that port
SoleMemberToDefault ==
    /\ task.op = "port_based"
    /\ NewVlan = DefaultVlan
    /\ OldVlan # DefaultVlan
    /\ DictHas(PreVlans, OldVlan)
    /\ PreVlans[OldVlan] = << MovedPort >>

\* C1: a move to VLAN 1 of the sole cached member of a non-default VLAN A
\* issues exactly one device call, del_port_based_vlan(A), and never a
\* set_port_based_vlan call.
C1_DeleteBranchIssuesOnlyDelete ==
    SoleMemberToDefault => calls = << del_port_based_vlan(OldVlan) >>

C1_Witness ==
    /\ SoleMemberToDefault
    /\ task.pc = "done"
    /\ calls = << del_port_based_vlan(OldVlan) >>

\* C2: after the delete branch completes, the cached table has no entry for A
\* and the port's cached port_based_vlanid is 1.
C2_DeleteBranchDropsCachedVlan ==
    (SoleMemberToDefault /\ task.pc = "done")
        => /\ ~DictHas(port_based_vlans, OldVlan)
           /\ port_states[MovedPort].port_based_vlanid = DefaultVlan

\* the port is moved to VLAN 1 out of a non-default VLAN that lists it and at
\* least one other port
SharedVlanToDefault ==
    /\ task.op = "port_based"
    /\ NewVlan = DefaultVlan
    /\ OldVlan # DefaultVlan
    /\ DictHas(PreVlans, OldVlan)
    /\ Contains(PreVlans[OldVlan], MovedPort)
    /\ \E q \in Range(PreVlans[OldVlan]) : q # MovedPort

\* C3: a move to VLAN 1 out of a non-default VLAN A with other members issues
\* exactly one device call, set_port_based_vlan(A, members of A without P), no
\* delete, and the port's cached VLAN id becomes 1.
C3_ModifyBranchResubmitsWithoutPort ==
    SharedVlanToDefault
        => /\ calls = << set_port_based_vlan(OldVlan, Without(PreVlans[OldVlan], MovedPort)) >>
           /\ (task.pc = "done" => port_states[MovedPort].port_based_vlanid = DefaultVlan)

\* the port is moved to a non-default VLAN, with a cache to move it in
ToNonDefault ==
    /\ task.op = "port_based"
    /\ NewVlan # DefaultVlan
    /\ PreVlans # NoneDict
    /\ MovedPort <= Len(task.pre_states)

ExistingMembers == IF DictHas(PreVlans, NewVlan) THEN PreVlans[NewVlan] ELSE << >>

C5_DefaultVlanNeverDeleted ==
    \A i \in 1..Len(calls) : ~IsDelCall(calls[i], DefaultVlan)

C5_Witness ==
    /\ task.op = "port_based"
    /\ task.pc = "done"
    /\ NewVlan = DefaultVlan
    /\ OldVlan = DefaultVlan
    /\ PreVlans[DefaultVlan] = << MovedPort >>
    /\ Len(calls) = 1

\* C6: whenever a move takes the last member out of a VLAN A # 1, whatever
\* the target, the move issues a delete call for A.
C6_EmptiedVlanIsDeleted ==
    ( /\ task.op = "port_based"
      /\ task.pc = "done"
      /\ OldVlan # DefaultVlan
      /\ NewVlan # OldVlan
      /\ DictHas(PreVlans, OldVlan)
      /\ PreVlans[OldVlan] = << MovedPort >> )
        => \E i \in 1..Len(calls) : IsDelCall(calls[i], OldVlan)

VlansListing(vlans, p) == { v \in DOMAIN vlans : Contains(vlans[v], p) }

\* C7: after a successful refresh and any sequence of completed moves, every
\* port 1..N is in the member list of exactly one cached PortBasedVlan.
C7_EveryPortInExactlyOneVlan ==
    ( /\ clean
      /\ task.pc \in { "idle", "done" }
      /\ port_states # << >>
      /\ port_based_vlans # NoneDict )
        => \A p \in 1..Len(port_states) :
              Cardinality(VlansListing(port_based_vlans, p)) = 1

\* what a logged call is and whom it names
CallSig(c) == << c.name, c.vlanid, c.number >>

Expected1QCalls ==
    << << "set_1q_untag_vlan", NewVlan, 0 >>,
       << "set_1q_untag_vlan", OldVlan, 0 >>,
       << "set_1q_port_pvid", NewVlan, MovedPort >> >>

\* C8: an 802.1Q move of P from old to new issues exactly three device calls,
\* one after another: set_1q_untag_vlan(new), set_1q_untag_vlan(old),
\* set_1q_port_pvid(P, new); no other call, however few untagged members old
\* keeps.
C8_ThreeCallsInOrder ==
    task.op = "ieee_1q"
        => /\ Len(calls) <= 3
           /\ \A i \in 1..Len(calls) : CallSig(calls[i]) = Expected1QCalls[i]
           /\ (task.pc = "call1" => Len(calls) = 1)
           /\ (task.pc = "call2" => Len(calls) = 2)
           /\ (task.pc \in { "call3", "done" } => Len(calls) = 3)

C8_Witness ==
    /\ task.op = "ieee_1q"
    /\ task.pc = "done"
    /\ OldVlan # NewVlan
    /\ vlans_1q[OldVlan].ungtag_ports = << >>
    /\ Len(calls) = 3

\* how often a port is listed in the three lists of one 802.1Q VLAN
Listed1Q(vlan, p) ==
    Count(vlan.ungtag_ports, p) + Count(vlan.tag_ports, p) + Count(vlan.notmem_ports, p)

\* every port 1..n is listed exactly once in every VLAN of the table
Partition1Q(vlans, n) == \A v \in DOMAIN vlans : \A p \in 1..n : Listed1Q(vlans[v], p) = 1

\* the page lists no port both untagged and tagged in one VLAN
DisjointMasks(d) ==
    \A i \in 1..Len(d.vids) : \A b \in 0..(MaskBits - 1) :
        ~(BitSet(d.untagMbrs[i], b) /\ BitSet(d.tagMbrs[i], b))

\* C9: for every VLAN get_1q_vlan_info returns and every port 1..N (N the
\* reported port count), the port is in exactly one of the VLAN's untagged,
\* tagged and not-member lists.
C9_BuilderPartition ==
    ( /\ builder_in.page = "ieee_1q"
      /\ builder_out.kind = "ok"
      /\ DisjointMasks(builder_in.data) )
        => Partition1Q(builder_out.vlans, builder_in.data.portNum)

\* C10: 802.1Q moves keep the partition: a move entered on a cached table
\* whose lists partition 1..N (any port, any existing target VLAN) leaves a
\* table whose lists still partition 1..N, no port listed twice.
C10_MovesKeepPartition ==
    ( /\ task.op = "ieee_1q"
      /\ PreVlans # NoneDict
      /\ NewVlan \in DOMAIN PreVlans
      /\ Partition1Q(PreVlans, Len(task.pre_states)) )
        => Partition1Q(vlans_1q, Len(port_states))

\* the cached 802.1Q VLANs whose untagged list contains the port
UntaggedIn(vlans, p) == { v \in DOMAIN vlans : Contains(vlans[v].ungtag_ports, p) }

\* C11: PVID consistency: after a successful 802.1Q refresh and any sequence
\* of 802.1Q moves, each port's pvid_1q_vlanid is the id of the one cached
\* VLAN whose untagged list contains the port.
C11_PvidIsTheUntaggedVlan ==
    ( /\ task.pc \in { "idle", "done" }
      /\ port_states # << >>
      /\ vlan_1q_enabled
      /\ vlans_1q # NoneDict )
        => \A p \in 1..Len(port_states) :
               UntaggedIn(vlans_1q, p) = { port_states[p].pvid_1q_vlanid }

\* the page's VLAN at position i claims the port
Claims(d, i, p) == BitSet(d.mbrs[i], p - 1)

\* C12: first-match rule of the port-based builder: every port 1..N gets the
\* id of the first VLAN, in the page's order, whose mask has bit (port-1) set,
\* and VLAN 1 when no mask has it; overlapping masks included.
C12_FirstMatchWins ==
    ( /\ builder_in.page = "port_based"
      /\ builder_out.kind = "ok" )
        => LET d == builder_in.data
           IN /\ Len(builder_out.ports) = d.portNum
              /\ \A p \in 1..d.portNum :
                    \/ \E i \in 1..Len(d.vids) :
                          /\ Claims(d, i, p)
                          /\ \A j \in 1..(i - 1) : ~Claims(d, j, p)
                          /\ builder_out.ports[p] = d.vids[i]
                    \/ /\ \A i \in 1..Len(d.vids) : ~Claims(d, i, p)
                       /\ builder_out.ports[p] = DefaultVlan

C12_Witness ==
    /\ builder_in.page = "port_based"
    /\ builder_out.kind = "ok"
    /\ LET d == builder_in.data
       IN /\ Len(d.vids) = 2
          /\ d.vids[1] # DefaultVlan
          /\ Claims(d, 1, 1) /\ Claims(d, 2, 1)
          /\ builder_out.ports[1] = d.vids[1]
          /\ \E q \in 1..d.portNum :
                /\ ~Claims(d, 1, q) /\ ~Claims(d, 2, q)
                /\ builder_out.ports[q] = DefaultVlan

\* C13: the builder's two views agree: after a successful port-based refresh,
\* every port p in 1..N with VLAN id v has an entry for v in the VLAN table,
\* and p is in that entry's member list.
C13_PortViewAgreesWithVlanView ==
    ( /\ builder_in.page = "port_based"
      /\ builder_out.kind = "ok" )
        => \A p \in 1..builder_in.data.portNum :
               /\ DictHas(builder_out.vlans, builder_out.ports[p])
               /\ Contains(builder_out.vlans[builder_out.ports[p]], p)

\* m & ((1 << n) - 1)
LowBits(m, n) == m % Pow2(n)

\* OR of 1 << (port-1) over the ports of a decoded member list
Encode(ports) == MaskOf(Range(ports))

\* C14: codec round trip: OR-ing 1 << (port-1) over the member ports decoded
\* from a mask m on a page of n ports gives m & ((1 << n) - 1), in both
\* builders.
C14_CodecRoundTrip ==
    builder_out.kind = "ok"
        => LET d == builder_in.data
           IN \A i \in 1..Len(d.vids) :
                LET vlan == builder_out.vlans[d.vids[i]]
                IN IF builder_in.page = "port_based"
                   THEN Encode(vlan) = LowBits(d.mbrs[i], d.portNum)
                   ELSE /\ Encode(vlan.ungtag_ports) = LowBits(d.untagMbrs[i], d.portNum)
                        /\ Encode(vlan.tag_ports) = LowBits(d.tagMbrs[i], d.portNum)

\* the page has every field the builder asks for
PageComplete(inp) ==
    LET d == inp.data
    IN /\ d.state # 0 /\ d.portNum # 0 /\ d.vids # << >>
       /\ IF inp.page = "port_based" THEN d.mbrs # << >>
          ELSE d.untagMbrs # << >> /\ d.tagMbrs # << >>

\* C15: zero-mask edge case: a membership mask of 0 decodes to the empty
\* member list without raising, for every port count, in the port-based and
\* in the 802.1Q builder; a report with a zero-mask VLAN still gives a fully
\* populated model.
C15_ZeroMaskDecodesToEmpty ==
    ( /\ builder_out # BuilderPending
      /\ PageComplete(builder_in) )
        => LET d == builder_in.data
           IN /\ builder_out.kind = "ok"
              /\ Len(builder_out.ports) = d.portNum
              /\ DOMAIN builder_out.vlans = Range(d.vids)
              /\ \A v \in Range(d.vids) :
                    LET i == LastIndexOf(d.vids, v)
                        vlan == builder_out.vlans[v]
                    IN IF builder_in.page = "port_based"
                       THEN d.mbrs[i] = 0 => vlan = << >>
                       ELSE /\ d.untagMbrs[i] = 0 => vlan.ungtag_ports = << >>
                            /\ d.tagMbrs[i] = 0 => vlan.tag_ports = << >>

\* every port of the list is a port of the switch
WithinPorts(ports, n) == \A i \in 1..Len(ports) : ports[i] \in 1..n

\* C16: out-of-range bits are ignored: whatever mask the device reports, the
\* decoded member lists of every VLAN (port-based members, 802.1Q untagged
\* and tagged) hold only port numbers in 1..port_count.
C16_DecodedPortsWithinPortCount ==
    builder_out.kind = "ok"
        => \A v \in DOMAIN builder_out.vlans :
              LET vlan == builder_out.vlans[v]
                  n == builder_in.data.portNum
              IN IF builder_in.page = "port_based"
                 THEN WithinPorts(vlan, n)
                 ELSE WithinPorts(vlan.ungtag_ports, n) /\ WithinPorts(vlan.tag_ports, n)

\* the VLAN page was fetched and lacks the state flag, the port count, the
\* VLAN ids or the masks
PBUnavailable(a) == ~a.pb.raise /\ a.pb.data \in PBLackingPages \cup {PBOff}

QUnavailable(a) == ~a.q.raise /\ a.q.data \in QLackingPages \cup {QOff}

\* the cached link state is the one fetched in the cycle
LinkStateAsFetched(a) ==
    /\ Len(port_states) = IF a.ok THEN a.max_port_num ELSE 0
    /\ \A i \in 1..Len(port_states) : port_states[i].number = i /\ port_states[i].enabled

\* the cached PoE state is the one the PoE updaters left
PoeAsFetched(a) ==
    feature_poe =>
        /\ ~a.poe.raise => poe_state = get_poe_state(TRUE, a.poe).value
        /\ port_poe_states = IF a.port_poe.raise THEN << >>
                             ELSE get_port_poe_states(TRUE, a.port_poe).value

\* C17: feature unavailable: a VLAN page lacking the state flag, the port
\* count, the VLAN ids or the masks makes the builder return the null pair
\* without raising; the coordinator then reports the feature disabled, nulls
\* that VLAN id of every cached port and the VLAN table, and leaves link
\* state, PoE state and the other VLAN variant's data as the cycle fetched
\* them.
C17_FeatureUnavailable ==
    last_update.info_ok =>
        LET a == last_update
        IN /\ PBUnavailable(a) =>
                /\ get_port_based_vlan_info(a.pb.data) = BuilderNone
                /\ ~port_based_vlan_enabled
                /\ port_based_vlans = NoneDict
                /\ \A i \in 1..Len(port_states) : port_states[i].port_based_vlanid = None
                /\ (a.ok /\ a.q = Fetched(RefreshQPage)) =>
                      /\ vlan_1q_enabled
                      /\ vlans_1q = get_1q_vlan_info(RefreshQPage).vlans
                      /\ \A i \in 1..Len(port_states) :
                            port_states[i].pvid_1q_vlanid = get_1q_vlan_info(RefreshQPage).ports[i]
           /\ QUnavailable(a) =>
                /\ get_1q_vlan_info(a.q.data) = BuilderNone
                /\ ~vlan_1q_enabled
                /\ vlans_1q = NoneDict
                /\ \A i \in 1..Len(port_states) : port_states[i].pvid_1q_vlanid = None
                /\ (a.ok /\ a.pb = Fetched(RefreshPBPage)) =>
                      /\ port_based_vlan_enabled
                      /\ port_based_vlans = get_port_based_vlan_info(RefreshPBPage).vlans
                      /\ \A i \in 1..Len(port_states) :
                            port_states[i].port_based_vlanid =
                                get_port_based_vlan_info(RefreshPBPage).ports[i]
           /\ (PBUnavailable(a) \/ QUnavailable(a)) =>
                LinkStateAsFetched(a) /\ PoeAsFetched(a)

C17_Witness ==
    /\ last_update.info_ok
    /\ PBUnavailable(last_update)
    /\ last_update.pb.data.state = 1
    /\ port_states # << >>
    /\ vlan_1q_enabled
    /\ vlans_1q # NoneDict
    /\ poe_state.kind = "PoeState"
    /\ port_poe_states # << >>

\* ---------------------------------------------------------------- C18
PostsOf(reqs) == { i \in 1..Len(reqs) : reqs[i].method = "POST" }

PriorityWireCode(p) == CASE p = "HIGH" -> 1 [] p = "MIDDLE" -> 2 [] p = "LOW" -> 3

LimitClassWireCode(m) ==
    CASE m = "AUTO" -> 1 [] m = "CLASS_1" -> 2 [] m = "CLASS_2" -> 3
      [] m = "CLASS_3" -> 4 [] m = "CLASS_4" -> 5

ValidPriority(p) == p \in { "HIGH", "MIDDLE", "LOW" }

ValidCustomLimit(l) == l.kind = "float" /\ 1 <= l.tenths /\ l.tenths <= 300

ValidLimitClass(l) ==
    l.kind = "PoePowerLimit" /\ l.name \in { "AUTO", "CLASS_1", "CLASS_2", "CLASS_3", "CLASS_4" }

PoePortAccepted(t) ==
    /\ t.available
    /\ ~t.fetch.raise
    /\ 1 <= t.port_number
    /\ t.port_number <= t.fetch.page.poe_port_num

\* C18: set_port_poe_settings sends priority HIGH/MIDDLE/LOW as 1/2/3, the five
\* power-limit classes as 1..5 and a custom limit of 0.1 .. 30.0 W as code 6
\* with the raw value; with any other priority or power limit the call fails
\* with ActionError (or with the transport's error when the port-count read
\* itself failed) and no POST is issued.
C18_PoeParameterMapping ==
    api_task.op = "set_port_poe_settings" =>
        LET t     == api_task
            valid == /\ ValidPriority(t.priority)
                     /\ ValidCustomLimit(t.power_limit) \/ ValidLimitClass(t.power_limit)
        IN /\ (valid /\ PoePortAccepted(t)) =>
                  /\ PostsOf(requests) = { Len(requests) }
                  /\ LET post == requests[Len(requests)]
                     IN /\ post.url = URL_POE_PORT_SETTINGS_SET
                        /\ post.data.name_ppriority = PriorityWireCode(t.priority)
                        /\ post.data.name_pstate = (IF t.enabled THEN 2 ELSE 1)
                        /\ ValidLimitClass(t.power_limit) =>
                               post.data.name_ppowerlimit = LimitClassWireCode(t.power_limit.name)
                        /\ ValidCustomLimit(t.power_limit) =>
                               /\ post.data.name_ppowerlimit = 6
                               /\ post.data.name_ppowerlimit2 = t.power_limit
           /\ ~valid =>
                  /\ PostsOf(requests) = {}
                  /\ t.result.kind = "raise"
                  /\ \/ t.result.exc = "ActionError"
                     \/ t.fetch.raise /\ t.result.exc = "DeviceError"

\* a custom limit at the upper end of the range, with priority LOW, was sent
C18_Witness ==
    /\ api_task.op = "set_port_poe_settings"
    /\ api_task.result.kind = "ok"
    /\ api_task.priority = "LOW"
    /\ api_task.power_limit = Float(CustomLimitMax)
    /\ PostsOf(requests) # {}

\* ---------------------------------------------------------------- C19
PoeWrites == { "set_poe_limit", "set_port_poe_settings" }

PoeReads == { "get_poe_state", "get_port_poe_states" }

\* C19: when the PoE feature is not available, set_poe_limit and
\* set_port_poe_settings fail with the feature-unsupported error and the PoE
\* reads return null / empty, in every case without any request to the device.
C19_PoeFeatureGate ==
    (api_task.op \in PoeWrites \cup PoeReads /\ ~api_task.available) =>
        /\ requests = << >>
        /\ api_task.op \in PoeWrites =>
               /\ api_task.result.kind = "raise"
               /\ api_task.result.exc = "ActionError"
               /\ api_task.result.msg = "POE feature is not supported by device"
        /\ api_task.op \in PoeReads => api_task.result.kind = "ok"
        /\ api_task.op = "get_poe_state" => api_task.result.value = NonePoeState
        /\ api_task.op = "get_port_poe_states" => api_task.result.value = << >>

\* a write was refused on a device without PoE although the page would have
\* answered and the limit was within the device's bounds
C19_Witness ==
    /\ api_task.op = "set_poe_limit"
    /\ ~api_task.available
    /\ ~api_task.fetch.raise
    /\ api_task.fetch.page.globalConfig # NoConfig
    /\ api_task.limit = api_task.fetch.page.globalConfig.system_power_limit_min
    /\ api_task.result.kind = "raise"

\* ---------------------------------------------------------------- C20
\* C20: every set_poe_limit call on a PoE device first reads the PoE page; the
\* limit is POSTed exactly when it lies between the minimum and the maximum
\* just read, and otherwise the call fails with ActionError and no POST.
C20_PoeLimitValidatedAgainstFreshBounds ==
    (api_task.op = "set_poe_limit" /\ api_task.available) =>
        LET t   == api_task
            cfg == t.fetch.page.globalConfig
        IN /\ Len(requests) >= 1
           /\ requests[1] = Get(URL_POE_SETTINGS_GET)
           /\ (t.fetch.raise \/ cfg = NoConfig) =>
                  PostsOf(requests) = {} /\ t.result.kind = "raise"
           /\ (~t.fetch.raise /\ cfg # NoConfig) =>
                  LET within == /\ cfg.system_power_limit_min <= t.limit
                                /\ t.limit <= cfg.system_power_limit_max
                  IN /\ within <=> PostsOf(requests) # {}
                     /\ within =>
                            /\ PostsOf(requests) = { 2 }
                            /\ requests[2].url = URL_POE_SETTINGS_SET
                            /\ requests[2].data.name_powerlimit = t.limit
                     /\ ~within =>
                            /\ t.result.kind = "raise"
                            /\ t.result.exc = "ActionError"

\* a limit at the maximum just read, above the maximum an earlier page could
\* have given, was sent
C20_Witness ==
    /\ api_task.op = "set_poe_limit"
    /\ api_task.result.kind = "ok"
    /\ api_task.limit = api_task.fetch.page.globalConfig.system_power_limit_max
    /\ api_task.limit > 20
    /\ PostsOf(requests) = { 2 }

\* ---------------------------------------------------------------- C21
\* C21: a refresh cycle is never aborted by a failing sub-fetch: whatever the
\* switch answers, all six sub-fetches run and async_update returns.
C21_RefreshNeverAborted ==
    update_task.pc # "none" =>
        /\ update_task.pc = "done"
        /\ update_task.ran = SubFetches

\* ---------------------------------------------------------------- C22
\* the sub-models whose fetch raised in the cycle, all but the PoE state
FailedSubModelsEmpty(a) ==
    /\ ~a.ok => port_states = << >>
    /\ (feature_poe /\ a.port_poe.raise) => port_poe_states = << >>
    /\ a.pb.raise =>
           /\ port_based_vlans = NoneDict
           /\ \A i \in 1..Len(port_states) : port_states[i].port_based_vlanid = None
    /\ a.q.raise =>
           /\ vlans_1q = NoneDict
           /\ \A i \in 1..Len(port_states) : port_states[i].pvid_1q_vlanid = None

\* the sub-models whose fetch succeeded hold what the cycle fetched
FetchedSubModelsFresh(a) ==
    /\ LinkStateAsFetched(a)
    /\ (feature_poe /\ ~a.poe.raise) => poe_state = get_poe_state(TRUE, a.poe).value
    /\ (feature_poe /\ ~a.port_poe.raise) =>
           port_poe_states = get_port_poe_states(TRUE, a.port_poe).value
    /\ a.pb = Fetched(RefreshPBPage) =>
           /\ port_based_vlans = get_port_based_vlan_info(RefreshPBPage).vlans
           /\ \A i \in 1..Len(port_states) :
                 port_states[i].port_based_vlanid = get_port_based_vlan_info(RefreshPBPage).ports[i]
    /\ a.q = Fetched(RefreshQPage) =>
           /\ vlans_1q = get_1q_vlan_info(RefreshQPage).vlans
           /\ \A i \in 1..Len(port_states) :
                 port_states[i].pvid_1q_vlanid = get_1q_vlan_info(RefreshQPage).ports[i]

\* C22: after a refresh cycle that ran to its end, a sub-model whose fetch
\* raised (port states, PoE state, port PoE states, port-based VLAN info,
\* 802.1Q VLAN info) is empty / null, with nothing of an earlier cycle left,
\* and a sub-model whose fetch succeeded holds the freshly fetched data.
C22_FailedFetchDegradesItsSubModel ==
    update_task.pc = "done" =>
        /\ FailedSubModelsEmpty(last_update)
        /\ (feature_poe /\ last_update.poe.raise) => poe_state = NonePoeState
        /\ FetchedSubModelsFresh(last_update)

\* ---------------------------------------------------------------- C23
\* C23: when the device call of async_set_port_based_vlan fails, the failure
\* reaches the caller, the observers are not notified and the cached port
\* VLAN ids and VLAN table are as they were when the move was requested.
C23_FailedMoveLeavesCacheUntouched ==
    (task.op = "port_based" /\ task.pc = "raised" /\ task.exc = "DeviceError") =>
        /\ ~task.notified
        /\ port_states = task.pre_states
        /\ port_based_vlans = task.pre_vlans

\* ---------------------------------------------------------------- C24
\* C24: when async_set_port_based_vlan notifies the observers, the moved
\* port's cached VLAN id names an entry of the cached VLAN table whose member
\* list contains the port.
C24_ObserverSeesPortInItsVlan ==
    (task.op = "port_based" /\ task.notified) =>
        LET vid == port_states[MovedPort].port_based_vlanid
        IN /\ DictHas(port_based_vlans, vid)
           /\ Contains(port_based_vlans[vid], MovedPort)

\* the observers were notified of a move into a VLAN that had other members
\* and did not list the port before
C24_Witness ==
    /\ task.op = "port_based"
    /\ task.notified
    /\ task.branch = "set_new"
    /\ DictHas(PreVlans, NewVlan)
    /\ PreVlans[NewVlan] # << >>
    /\ ~Contains(PreVlans[NewVlan], MovedPort)
    /\ port_states[MovedPort].port_based_vlanid = NewVlan

\* ---------------------------------------------------------------- C25
\* the table the handler was entered with, after the four list operations of
\* lines 347-352
PatchedVlans1Q ==
    LET left == [ PreVlans EXCEPT ![OldVlan] = PatchOld1Q(@, MovedPort) ]
    IN [ left EXCEPT ![NewVlan] = PatchNew1Q(@, MovedPort) ]

\* the cache holds the new assignment: the port's PVID and the lists of the
\* old and the new VLAN
NewAssignment1QCached ==
    /\ port_states = [ task.pre_states EXCEPT ![MovedPort].pvid_1q_vlanid = NewVlan ]
    /\ vlans_1q = PatchedVlans1Q

\* C25: async_set_untag_1q_vlan has applied all its cache mutations when its
\* first device call is issued; when device call k fails the failure reaches
\* the caller with only calls 1..k issued, and the cache keeps the new
\* assignment.
C25_OptimisticUpdateNoRollback ==
    (task.op = "ieee_1q" /\ task.notified) =>
        /\ NewAssignment1QCached
        /\ task.pc = "raised" =>
               /\ task.exc = "DeviceError"
               /\ Len(calls) \in 1..3
               /\ \A i \in 1..Len(calls) : CallSig(calls[i]) = Expected1QCalls[i]

\* the second device call failed: two calls issued, the cache ahead of the device
C25_Witness ==
    /\ task.op = "ieee_1q"
    /\ task.notified
    /\ task.pc = "raised"
    /\ task.exc = "DeviceError"
    /\ Len(calls) = 2
    /\ OldVlan # NewVlan
    /\ port_states[MovedPort].pvid_1q_vlanid = NewVlan
    /\ vlans_1q # task.pre_vlans

\* ---------------------------------------------------------------- C26
\* the builder's answer for a page, as the updaters receive it
Decoded(info, fetch) == info[fetch.data]

\* every sub-fetch of the cycle returned and both builders returned a model
\* or the null pair
FullySuccessful(a) ==
    /\ a.info_ok
    /\ a.ok
    /\ ~a.pb.raise
    /\ ~a.q.raise
    /\ Decoded(ApiPortBasedInfo, a.pb).kind # "raise"
    /\ Decoded(Api1QInfo, a.q).kind # "raise"

\* the cached VLAN id of every port and the cached table are the builder's
\* decode of the page
CacheIsDecodeOf(a) ==
    LET pb == Decoded(ApiPortBasedInfo, a.pb)
        q  == Decoded(Api1QInfo, a.q)
    IN /\ Len(port_states) = a.max_port_num
       /\ port_based_vlans = pb.vlans
       /\ vlans_1q = q.vlans
       /\ \A i \in 1..Len(port_states) :
             /\ port_states[i].port_based_vlanid = IF pb.kind = "ok" THEN pb.ports[i] ELSE None
             /\ port_states[i].pvid_1q_vlanid = IF q.kind = "ok" THEN q.ports[i] ELSE None

\* C26: after any sequence of port-based and 802.1Q moves, failed ones
\* included, a fully successful async_update leaves the cached port VLAN ids
\* and VLAN tables equal to the decode of the pages of that refresh.
C26_RefreshReplacesCache ==
    (task.pc = "idle" /\ moves = 0 /\ update_task.pc = "done" /\ FullySuccessful(last_update))
        => CacheIsDecodeOf(last_update)

\* a fully successful refresh has followed a move that raised, and no move
\* has been requested since
C26_Witness ==
    /\ task.pc = "idle"
    /\ moves = 0
    /\ update_task.pc = "done"
    /\ update_task.after_failure
    /\ FullySuccessful(last_update)
    /\ port_based_vlans # NoneDict \/ vlans_1q # NoneDict

\* ---------------------------------------------------------------- C27
\* C27: over any sequence and interleaving of is_feature_available calls on
\* one TpLinkApi, the detector's update() runs at most once, and a call made
\* after it has completed returns the kept answer.
C27_FeaturesDetectedOnce ==
    /\ feature_updates <= 1
    /\ \A c \in 1..FeatureCallers :
           (feature_calls[c].pc = "done" /\ is_features_updated) =>
               feature_calls[c].result = feature_poe

\* ---------------------------------------------------------------- C28
\* C28: a port-based move of port P changes only P's cached VLAN id and P's
\* own membership: every other port keeps its cached VLAN id and is listed
\* by the same cached VLANs as before.
C28_MoveFrame ==
    task.op = "port_based" =>
        \A q \in 1..Len(port_states) :
            q # MovedPort =>
                /\ port_states[q] = task.pre_states[q]
                /\ VlansListing(port_based_vlans, q) = VlansListing(PreVlans, q)

\* ---------------------------------------------------------------- C29
\* the port is asked into the VLAN the cache already lists it in
NoOpMove ==
    /\ task.op = "port_based"
    /\ NewVlan = OldVlan
    /\ DictHas(PreVlans, NewVlan)
    /\ Count(PreVlans[NewVlan], MovedPort) = 1

\* C29: a port-based move of port P to the VLAN it is already in never
\* submits a member list of that VLAN that lacks P or holds P more than once,
\* and leaves the cached port VLAN ids and every VLAN's member set unchanged.
C29_NoOpMoveIsIdempotent ==
    NoOpMove =>
        /\ \A i \in 1..Len(calls) :
               (calls[i].name = "set_port_based_vlan" /\ calls[i].vlanid = NewVlan) =>
                   Count(calls[i].ports, MovedPort) = 1
        /\ task.pc = "done" =>
               /\ port_states = task.pre_states
               /\ DOMAIN port_based_vlans = DOMAIN PreVlans
               /\ \A v \in DOMAIN PreVlans : Range(port_based_vlans[v]) = Range(PreVlans[v])

\* ---------------------------------------------------------------- C30
\* C30: the cache patch of an 802.1Q move is all-or-nothing: for a port of
\* the switch that its PVID's VLAN lists as untagged and a target VLAN of the
\* cached table (the port may be tagged there, or missing from the target's
\* not-member list), the handler either applies all its cache mutations and
\* goes on to its device calls, or raises with every port's cached PVID and
\* every cached VLAN's three lists as they were.
C30_PatchAllOrNothing ==
    ( /\ task.op = "ieee_1q"
      /\ MovedPort \in 1..Len(task.pre_states)
      /\ DictHas(PreVlans, NewVlan)
      /\ DictHas(PreVlans, OldVlan)
      /\ Contains(PreVlans[OldVlan].ungtag_ports, MovedPort) ) =>
        \/ task.notified
        \/ /\ task.pc = "raised"
           /\ port_states = task.pre_states
           /\ vlans_1q = PreVlans

\* ---------------------------------------------------------------- C31
\* the refresh cycle that ran during the suspension fetched the port states
\* and decoded the port-based page into a VLAN table
RefreshReplacedDuringCall ==
    /\ task.op = "port_based"
    /\ task.refreshed
    /\ last_update.info_ok
    /\ last_update.ok
    /\ ~last_update.pb.raise
    /\ Decoded(ApiPortBasedInfo, last_update.pb).kind = "ok"

\* C31: when a refresh cycle has replaced the cached port states and the
\* port-based VLAN table while async_set_port_based_vlan was suspended in its
\* device call, and the call then returns, the cache patch completes without
\* error and the moved port's cached VLAN id names a cached VLAN entry that
\* contains the port.
C31_PatchAfterInterleavedRefresh ==
    (RefreshReplacedDuringCall /\ task.pc \in { "done", "raised" }
        /\ task.exc # "DeviceError") =>
        /\ task.pc = "done"
        /\ LET vid == port_states[MovedPort].port_based_vlanid
           IN /\ DictHas(port_based_vlans, vid)
              /\ Contains(port_based_vlans[vid], MovedPort)

\* ---------------------------------------------------------------- C32
\* C32: set_port_state changes nothing in the cached port states before its
\* device call has completed; after it, a port number outside
\* 1..ports_count has changed no cached port state and the patch has not
\* raised, and a number inside the range has changed that port's enabled
\* flag and nothing else.
C32_SetPortStateRange ==
    /\ (task.op = "port_state" /\ (task.pc = "await" \/ task.exc = "DeviceError")) =>
            port_states = task.pre_states
    /\ (task.op = "port_state" /\ task.pc \in { "done", "raised" }
            /\ task.exc # "DeviceError") =>
            /\ task.pc = "done"
            /\ port_states =
                  IF task.port_id \in 1..Len(task.pre_states)
                  THEN [ task.pre_states EXCEPT ![task.port_id].enabled = task.enabled ]
                  ELSE task.pre_states

====
